---- MODULE Spec2Model ----
(***************************************************************************)
(* photo-flow: the file manager (fingerprint cache, duplicate check, safe  *)
(* copy) and the workflow operations built on it (import, finalize,        *)
(* cleanup, gallery sync, backup).  The persisted state is the directory   *)
(* trees; every command is one process with its own fingerprint cache.     *)
(*                                                                         *)
(* File bytes are sequences of blocks, one block standing for 1 MiB, so    *)
(* the 10 MiB threshold and the 1 MiB head/tail ranges keep their ratio.   *)
(* md5 is idealised as collision free: the digest of a byte range is the   *)
(* range itself.                                                           *)
(***************************************************************************)
EXTENDS Integers, Sequences, FiniteSets, TLC

VARIABLES fs, dirs, cache, last

vars == <<fs, dirs, cache, last>>

--------------------------------------------------------------------------
(* Bounds *)

MaxStem == 2
MaxSteps == 3

(* Program constants, in MiB *)
LargeThreshold == 10
PartialBlock == 1

--------------------------------------------------------------------------
(* Paths and files *)

Stems == 1..MaxStem

CAMERA_PATH == "DCIM"
CAMERA_FOLDER == "102_FUJI"
SSD_PATH == "SSD"
STAGING_PATH == "STAGING"
RAWS_PATH == "RAWS"
FINAL_PATH == "FINAL"
TMP_PATH == "TMP"
GALLERY_PATH == "GALLERY"
GALLERY_IMAGES == "GALLERY/images"
DIST_PATH == "DIST"

EXTENSIONS == {"JPG", "RAF", "MOV"}

FileDirs == {CAMERA_FOLDER, SSD_PATH, STAGING_PATH, RAWS_PATH, FINAL_PATH, TMP_PATH}
AllDirs == FileDirs \cup {CAMERA_PATH}

P(d, s, e) == [dir |-> d, stem |-> s, ext |-> e]

\* The slots a run can touch: the camera holds all three kinds, every other
\* directory the kind the workflow sends there.
Paths ==
    {P(CAMERA_FOLDER, s, e) : s \in Stems, e \in EXTENSIONS}
    \cup {P(SSD_PATH, s, "MOV") : s \in Stems}
    \cup {P(STAGING_PATH, s, "JPG") : s \in Stems}
    \cup {P(RAWS_PATH, s, "RAF") : s \in Stems}
    \cup {P(FINAL_PATH, s, "JPG") : s \in Stems}
    \cup {P(TMP_PATH, s, "JPG") : s \in Stems}
    \cup {P(GALLERY_IMAGES, s, "JPG") : s \in Stems}
    \cup {P(GALLERY_PATH, 0, "JSON")}

NoFile == [exists |-> FALSE, bytes |-> <<>>, mtime |-> 0]
File(b, t) == [exists |-> TRUE, bytes |-> b, mtime |-> t]

Max(a, b) == IF a >= b THEN a ELSE b
Min(a, b) == IF a <= b THEN a ELSE b

NoFaults ==
    [unread |-> {}, raise |-> {}, garble |-> {}, garbleAt |-> 1, nounlink |-> {},
     noexiftool |-> FALSE, nonpm |-> FALSE, norsync |-> FALSE, fail |-> {},
     answer |-> FALSE, nomkdir |-> FALSE,
     killAt |-> -1, killMode |-> "before"]

\* The time a process stamps on the files it writes: later than every file
\* already on disk.
Now(f) ==
    LET times == {f[p].mtime : p \in Paths}
    IN (CHOOSE m \in times : \A t \in times : t <= m) + 1

\* A world is what one process sees and changes: the files, the directories,
\* its fingerprint cache, and the environment of the run (files that cannot
\* be read, copies that fail, deletes that fail, the step at which the
\* process is killed, what the user answers when asked).
World(f, d, c, env) ==
    [fs |-> f, dirs |-> d, cache |-> c, env |-> env, dead |-> FALSE,
     fuel |-> env.killAt, now |-> Now(f), log |-> <<>>]

Logged(w, e) == IF w.dead THEN w ELSE [w EXCEPT !.log = Append(@, e)]

--------------------------------------------------------------------------
(* The primitives a run is made of: shutil.copy2, Path.unlink, Path.mkdir. *)
(* A killed process (fuel used up) changes nothing any more.               *)

Spend(w) == IF w.fuel > 0 THEN [w EXCEPT !.fuel = @ - 1] ELSE w

Prefix(bytes) == SubSeq(bytes, 1, Len(bytes) - 1)

Garbled(bytes, at) ==
    LET i == Min(at, Len(bytes))
    IN [j \in 1..Len(bytes) |-> IF j = i THEN bytes[j] + 50 ELSE bytes[j]]

\* shutil.copy2(src, dst): the bytes, then the timestamps.  raised: the call
\* ended in an exception.  A process killed in the call dies before the
\* first byte, part way through the bytes, after the bytes and before the
\* timestamps, or right after the call.
KilledInCopy(w, f, src, dst) ==
    [w EXCEPT !.dead = TRUE,
              !.fs[dst] = IF w.env.killMode = "before" \/ ~f.exists \/ src \in w.env.unread
                          THEN @
                          ELSE IF w.env.killMode = "partial"
                          THEN File(Prefix(f.bytes), w.now)
                          ELSE IF w.env.killMode = "nostat"
                          THEN File(f.bytes, w.now)
                          ELSE File(f.bytes, f.mtime)]

Written(w, src, dst, ev, file) ==
    Logged([w EXCEPT !.fs[dst] = file], [ev |-> ev, src |-> src, dst |-> dst])

CopyBytes(w, f, src, dst) ==
    IF ~f.exists \/ src \in w.env.unread
    THEN [w |-> w, raised |-> TRUE]
    ELSE IF dst \in w.env.raise
    THEN [w |-> Written(w, src, dst, "partial", File(Prefix(f.bytes), w.now)),
          raised |-> TRUE]
    ELSE IF dst \in w.env.garble
    THEN [w |-> Written(w, src, dst, "copy", File(Garbled(f.bytes, w.env.garbleAt), f.mtime)),
          raised |-> FALSE]
    ELSE [w |-> Written(w, src, dst, "copy", File(f.bytes, f.mtime)), raised |-> FALSE]

Copy2(w, src, dst) ==
    IF w.dead THEN [w |-> w, raised |-> FALSE]
    ELSE IF w.fuel = 0
    THEN [w |-> KilledInCopy(w, w.fs[src], src, dst), raised |-> FALSE]
    ELSE CopyBytes(Spend(w), w.fs[src], src, dst)

\* Path.unlink()
Unlink(w, p) ==
    IF w.dead THEN [w |-> w, raised |-> FALSE]
    ELSE IF w.fuel = 0 THEN [w |-> [w EXCEPT !.dead = TRUE], raised |-> FALSE]
    ELSE IF ~w.fs[p].exists \/ p \in w.env.nounlink
    THEN [w |-> Spend(w), raised |-> TRUE]
    ELSE [w |-> Logged([Spend(w) EXCEPT !.fs[p] = NoFile],
                       [ev |-> "unlink", src |-> p, dst |-> p]),
          raised |-> FALSE]

\* Path.mkdir(parents=True, exist_ok=True)
Mkdir(w, d) == IF w.dead THEN w ELSE [w EXCEPT !.dirs = @ \cup {d}]

--------------------------------------------------------------------------
(* FileManager.get_file_hash *)

Md5(data) == data

\* A fingerprint of all the bytes at every size: not the code, which C26
\* tells from it.
HashedRange_Whole(bytes, partial) == bytes

\* A fingerprint that takes the head and tail ranges at every size: not
\* the code, which C7 tells from it.
HashedRange_HeadTail(bytes, partial) ==
    IF ~partial \/ Len(bytes) <= 2 * PartialBlock
    THEN bytes
    ELSE SubSeq(bytes, 1, PartialBlock)
         \o SubSeq(bytes, Len(bytes) - PartialBlock + 1, Len(bytes))

HashedRange(bytes, partial) ==
    IF ~partial \/ Len(bytes) <= LargeThreshold
    THEN bytes
    ELSE SubSeq(bytes, 1, Min(PartialBlock, Len(bytes)))
         \o SubSeq(bytes, Max(Len(bytes) - PartialBlock, 0) + 1, Len(bytes))

\* A cache key without the modification time: not the code, which C25
\* tells from it.
CacheKey_NoMtime(p, f, partial) ==
    [path |-> p, size |-> Len(f.bytes), mtime |-> 0, partial |-> partial]

CacheKey(p, f, partial) ==
    [path |-> p, size |-> Len(f.bytes), mtime |-> f.mtime, partial |-> partial]

Cached(w, key) == {e \in w.cache : e.key = key}

HashMiss(w, p, key, h) ==
    [w |-> [w EXCEPT !.cache = @ \cup {[key |-> key, digest |-> h]}],
     hash |-> h, err |-> ""]

HashLookup(w, p, key, hits, partial) ==
    IF hits # {}
    THEN [w |-> w, hash |-> (CHOOSE e \in hits : TRUE).digest, err |-> ""]
    ELSE IF p \in w.env.unread
    THEN [w |-> w, hash |-> <<>>, err |-> "Error generating hash"]
    ELSE HashMiss(w, p, key, Md5(HashedRange(w.fs[p].bytes, partial)))

GetFileHash(w, p, partial) ==
    IF ~w.fs[p].exists
    THEN [w |-> w, hash |-> <<>>, err |-> "Error generating hash"]
    ELSE HashLookup(w, p, CacheKey(p, w.fs[p], partial),
                    Cached(w, CacheKey(p, w.fs[p], partial)), partial)

--------------------------------------------------------------------------
(* FileManager.is_duplicate *)

CompareHashes(hs, hd) ==
    IF hd.err # ""
    THEN [w |-> hd.w, dup |-> FALSE, err |-> hd.err]
    ELSE [w |-> hd.w, dup |-> (hs.hash = hd.hash), err |-> ""]

HashDst(hs, dst) ==
    IF hs.err # ""
    THEN [w |-> hs.w, dup |-> FALSE, err |-> hs.err]
    ELSE CompareHashes(hs, GetFileHash(hs.w, dst, TRUE))

\* A duplicate check that looks at the destination's existence alone: not
\* the code, which C8 tells from it.
IsDuplicate_ExistsOnly(w, src, dst) ==
    [w |-> w, dup |-> w.fs[dst].exists, err |-> ""]

IsDuplicate(w, src, dst) ==
    IF ~w.fs[dst].exists
    THEN [w |-> w, dup |-> FALSE, err |-> ""]
    ELSE IF ~w.fs[src].exists
    THEN [w |-> w, dup |-> FALSE, err |-> "Error comparing file sizes"]
    ELSE IF Len(w.fs[src].bytes) # Len(w.fs[dst].bytes)
    THEN [w |-> w, dup |-> FALSE, err |-> ""]
    ELSE HashDst(GetFileHash(w, src, TRUE), dst)

--------------------------------------------------------------------------
(* FileManager.safe_copy *)

\* Verify copy was successful
VerifyCopy(post) ==
    IF post.err # "" THEN [w |-> post.w, ok |-> FALSE, err |-> post.err]
    ELSE IF post.dup THEN [w |-> post.w, ok |-> TRUE, err |-> ""]
    ELSE [w |-> post.w, ok |-> FALSE, err |-> "Verification failed"]

\* A safe_copy without its except clause: the exception of the copy
\* escapes and no value is returned, which the empty message stands for.
\* Not the code, which C27 tells from it.
AfterCopy2_Uncaught(cp, src, dst) ==
    IF cp.raised THEN [w |-> cp.w, ok |-> FALSE, err |-> ""]
    ELSE VerifyCopy(IsDuplicate(cp.w, src, dst))

AfterCopy2(cp, src, dst) ==
    IF cp.raised THEN [w |-> cp.w, ok |-> FALSE, err |-> "Error copying"]
    ELSE VerifyCopy(IsDuplicate(cp.w, src, dst))

\* A safe_copy without the short cut for an identical destination: not the
\* code, which C6 tells from it.
AfterPreCheck_AlwaysCopy(pre, src, dst) ==
    IF pre.err # "" THEN [w |-> pre.w, ok |-> FALSE, err |-> pre.err]
    ELSE AfterCopy2(Copy2(pre.w, src, dst), src, dst)

\* Check if destination file already exists and is identical
AfterPreCheck(pre, src, dst) ==
    IF pre.err # "" THEN [w |-> pre.w, ok |-> FALSE, err |-> pre.err]
    ELSE IF pre.dup THEN [w |-> pre.w, ok |-> TRUE, err |-> ""]
    ELSE AfterCopy2(Copy2(pre.w, src, dst), src, dst)

PreCheck(w, src, dst) ==
    IF w.fs[dst].exists
    THEN IsDuplicate(w, src, dst)
    ELSE [w |-> w, dup |-> FALSE, err |-> ""]

\* dst.parent.mkdir raises when the directory is missing and cannot be
\* made; the except clause turns every exception into a message.
SafeCopy(w, src, dst) ==
    IF dst.dir \notin w.dirs /\ w.env.nomkdir
    THEN [w |-> w, ok |-> FALSE, err |-> "Error copying"]
    ELSE AfterPreCheck(PreCheck(Mkdir(w, dst.dir), src, dst), src, dst)

--------------------------------------------------------------------------
(* Directory scans *)

InDir(w, d, exts) ==
    {p \in Paths : p.dir = d /\ p.ext \in exts /\ w.fs[p].exists}

\* The files of a scan in the order the loop takes them.  Enumeration order
\* is the file system's; the initial states are closed under renaming of
\* stems, so ascending stems stand for every order.
RECURSIVE ByStem(_, _)
ByStem(ps, s) ==
    IF s > MaxStem THEN <<>>
    ELSE LET here == {p \in ps : p.stem = s}
         IN (IF here = {} THEN <<>> ELSE <<CHOOSE p \in here : TRUE>>) \o ByStem(ps, s + 1)

\* scan_for_images(directory, extension)
ScanForImages(w, d, e) == ByStem(InDir(w, d, {e}), 1)

\* FileManager.scan_camera_files()[ext]
ScanCameraFiles(w, e) ==
    IF CAMERA_PATH \notin w.dirs \/ CAMERA_FOLDER \notin w.dirs THEN <<>>
    ELSE IF e \in EXTENSIONS THEN ByStem(InDir(w, CAMERA_FOLDER, {e}), 1)
    ELSE <<>>

StemsOf(files) == {files[i].stem : i \in 1..Len(files)}

SelectSeq2(files, keep) ==
    LET Test(p) == p.stem \in keep IN SelectSeq(files, Test)

--------------------------------------------------------------------------
(* PhotoWorkflow._process_files *)

ZeroStats == [processed |-> 0, skipped |-> 0, errors |-> 0]

Bump(st, k) == [st EXCEPT ![k] = @ + 1]

Ev(e, src, dst) == [ev |-> e, src |-> src, dst |-> dst]

\* A transfer that counts a file whose delete failed as an error only: not
\* the code, which C23 tells from it.
AfterUnlink_ErrorOnly(u, st, file, dst) ==
    IF u.raised
    THEN [w |-> Logged(u.w, Ev("error", file, dst)), stats |-> Bump(st, "errors")]
    ELSE [w |-> u.w, stats |-> Bump(st, "processed")]

\* file_path.unlink() after a successful copy
AfterUnlink(u, st, file, dst) ==
    IF u.raised
    THEN [w |-> Logged(u.w, Ev("error", file, dst)),
          stats |-> Bump(Bump(st, "processed"), "errors")]
    ELSE [w |-> u.w, stats |-> Bump(st, "processed")]

\* A transfer that deletes the source whatever safe_copy returned: not the
\* code, which C1 tells from it.
AfterSafeCopy_Unchecked(sc, st, file, dst, delete_original) ==
    IF delete_original
    THEN AfterUnlink(Unlink(Logged(sc.w, Ev(IF sc.ok THEN "copied" ELSE "error", file, dst)),
                            file),
                     st, file, dst)
    ELSE [w |-> Logged(sc.w, Ev("copied", file, dst)), stats |-> Bump(st, "processed")]

AfterSafeCopy(sc, st, file, dst, delete_original) ==
    IF ~sc.ok
    THEN [w |-> Logged(sc.w, Ev("error", file, dst)), stats |-> Bump(st, "errors")]
    ELSE IF delete_original
    THEN AfterUnlink(Unlink(Logged(sc.w, Ev("copied", file, dst)), file), st, file, dst)
    ELSE [w |-> Logged(sc.w, Ev("copied", file, dst)), stats |-> Bump(st, "processed")]

\* A transfer without the skip of an identical destination: not the code,
\* which C10 tells from it.
AfterIsDuplicate_NoSkip(d, st, file, dst, delete_original) ==
    IF d.err # ""
    THEN [w |-> Logged(d.w, Ev("error", file, dst)), stats |-> Bump(st, "errors")]
    ELSE AfterSafeCopy(SafeCopy(d.w, file, dst), st, file, dst, delete_original)

\* Check if destination already exists and is identical
AfterIsDuplicate(d, st, file, dst, delete_original) ==
    IF d.err # ""
    THEN [w |-> Logged(d.w, Ev("error", file, dst)), stats |-> Bump(st, "errors")]
    ELSE IF d.w.fs[dst].exists /\ d.dup
    THEN [w |-> Logged(d.w, Ev("skip", file, dst)), stats |-> Bump(st, "skipped")]
    ELSE AfterSafeCopy(SafeCopy(d.w, file, dst), st, file, dst, delete_original)

ProcessOne(w, st, file, dst, dry_run, delete_original) ==
    IF dry_run THEN [w |-> w, stats |-> Bump(st, "processed")]
    ELSE AfterIsDuplicate(IsDuplicate(w, file, dst), st, file, dst, delete_original)

RECURSIVE ProcessFrom(_, _, _, _, _, _)
ProcessFrom(r, files, i, destination, dry_run, delete_original) ==
    IF i > Len(files) THEN r
    ELSE ProcessFrom(ProcessOne(r.w, r.stats, files[i],
                                P(destination, files[i].stem, files[i].ext),
                                dry_run, delete_original),
                     files, i + 1, destination, dry_run, delete_original)

ProcessFiles(w, files, destination, dry_run, delete_original) ==
    ProcessFrom([w |-> w, stats |-> ZeroStats], files, 1, destination, dry_run,
                delete_original)

--------------------------------------------------------------------------
(* PhotoWorkflow.import_from_camera *)

FinalJpgBases(w) ==
    IF FINAL_PATH \in w.dirs THEN StemsOf(ScanForImages(w, FINAL_PATH, "JPG")) ELSE {}

ImportStats(mov, jpg, raf, skipped_finalized) ==
    [w |-> raf.w,
     stats |-> [videos |-> mov.stats.processed,
                photos |-> jpg.stats.processed,
                raws |-> raf.stats.processed,
                skipped |-> mov.stats.skipped + jpg.stats.skipped
                            + raf.stats.skipped + skipped_finalized,
                errors |-> mov.stats.errors + jpg.stats.errors + raf.stats.errors]]

ImportRaws(mov, jpg, raf_files, skipped_finalized, dry_run) ==
    ImportStats(mov, jpg, ProcessFiles(jpg.w, raf_files, RAWS_PATH, dry_run, TRUE),
                skipped_finalized)

ImportPhotos(mov, jpg_files, raf_files, skipped_finalized, dry_run) ==
    ImportRaws(mov, ProcessFiles(mov.w, jpg_files, STAGING_PATH, dry_run, TRUE),
               raf_files, skipped_finalized, dry_run)

ImportLists(w, all_jpg, all_raf, mov_files, jpg_files, raf_files, dry_run) ==
    ImportPhotos(ProcessFiles(w, mov_files, SSD_PATH, dry_run, TRUE),
                 jpg_files, raf_files,
                 Len(all_jpg) - Len(jpg_files) + Len(all_raf) - Len(raf_files),
                 dry_run)

\* An import that does not leave out the stems of the final library: not
\* the code, which C9 tells from it.
ImportFromCamera_Unfiltered(w, dry_run) ==
    ImportLists(w, ScanCameraFiles(w, "JPG"), ScanCameraFiles(w, "RAF"),
                ScanCameraFiles(w, "MOV"),
                ScanCameraFiles(w, "JPG"), ScanCameraFiles(w, "RAF"), dry_run)

ImportFromCamera(w, dry_run) ==
    ImportLists(w, ScanCameraFiles(w, "JPG"), ScanCameraFiles(w, "RAF"),
                ScanCameraFiles(w, "MOV"),
                SelectSeq2(ScanCameraFiles(w, "JPG"), Stems \ FinalJpgBases(w)),
                SelectSeq2(ScanCameraFiles(w, "RAF"), Stems \ FinalJpgBases(w)),
                dry_run)

--------------------------------------------------------------------------
(* ImageProcessor.compress_jpeg_safe, with output_path given *)

\* A JPEG decodes when its header block is sound and its end marker is there.
Decodable(bytes) == Len(bytes) >= 2 /\ bytes[1] # 0 /\ bytes[Len(bytes)] = 1

\* The re-encoded image with the input's metadata: a function of all of the
\* input, and not the input.
Recompress(bytes) == <<bytes[1] * 10 + bytes[2], 1>>

CompressJpegSafe(w, input_path, output_path) ==
    IF w.env.noexiftool THEN [w |-> w, ok |-> FALSE]
    ELSE IF ~w.fs[input_path].exists \/ input_path \in w.env.unread
            \/ ~Decodable(w.fs[input_path].bytes)
    THEN [w |-> w, ok |-> FALSE]
    ELSE [w |-> [w EXCEPT !.fs[output_path] =
                    File(Recompress(w.fs[input_path].bytes), w.now)],
          ok |-> TRUE]

--------------------------------------------------------------------------
(* PhotoWorkflow.finalize_staging *)

ZeroFinalize ==
    [moved |-> 0, compressed |-> 0, copied_to_camera |-> 0, orphaned_raws |-> 0,
     deleted_raws |-> 0, deleted_camera_raws |-> 0, skipped |-> 0, errors |-> 0]

\* tempfile.NamedTemporaryFile(delete=False) and the finally clause that
\* removes it again
WithTemp(w, tmp) == [w EXCEPT !.fs[tmp] = File(<<>>, w.now)]
DropTemp(w, tmp) == [w EXCEPT !.fs[tmp] = NoFile]

Outcome(w, e, staging_file, final_path, tmp, st) ==
    [w |-> DropTemp(Logged(w, Ev(e, staging_file, final_path)), tmp), stats |-> st]

\* staging_file.unlink()
AfterStagingUnlink(u, st, staging_file, final_path, tmp) ==
    IF u.raised
    THEN Outcome(u.w, "error", staging_file, final_path, tmp, Bump(st, "errors"))
    ELSE Outcome(u.w, "moved", staging_file, final_path, tmp,
                 Bump(Bump(st, "moved"), "compressed"))

\* A promotion that deletes the staged photo whatever safe_copy returned:
\* not the code, which C4 tells from it.
AfterFinalCopy_Unchecked(sc, st, staging_file, final_path, tmp) ==
    AfterStagingUnlink(Unlink(sc.w, staging_file), st, staging_file, final_path, tmp)

AfterFinalCopy(sc, st, staging_file, final_path, tmp) ==
    IF sc.ok
    THEN AfterStagingUnlink(Unlink(sc.w, staging_file), st, staging_file, final_path, tmp)
    ELSE Outcome(sc.w, "copy_failed", staging_file, final_path, tmp, Bump(st, "errors"))

AfterCompress(c, st, staging_file, final_path, tmp) ==
    IF ~c.ok
    THEN Outcome(c.w, "compress_failed", staging_file, final_path, tmp, Bump(st, "errors"))
    ELSE AfterFinalCopy(SafeCopy(c.w, tmp, final_path), st, staging_file, final_path, tmp)

\* is_dup, _ = is_duplicate(staging_file, final_path)
AfterFinalCheck(d, st, staging_file, final_path, tmp, dry_run) ==
    IF d.dup
    THEN [w |-> Logged(d.w, Ev("skip", staging_file, final_path)),
          stats |-> Bump(st, "skipped")]
    ELSE IF dry_run
    THEN [w |-> d.w, stats |-> Bump(Bump(st, "moved"), "compressed")]
    ELSE AfterCompress(CompressJpegSafe(WithTemp(d.w, tmp), staging_file, tmp),
                       st, staging_file, final_path, tmp)

\* Check if file already exists in Final (skip duplicates)
FinalCheck(w, staging_file, final_path) ==
    IF w.fs[final_path].exists
    THEN IsDuplicate(w, staging_file, final_path)
    ELSE [w |-> w, dup |-> FALSE, err |-> ""]

PromoteOne(w, st, staging_file, final_path, dry_run) ==
    AfterFinalCheck(FinalCheck(w, staging_file, final_path), st, staging_file, final_path,
                    P(TMP_PATH, staging_file.stem, "JPG"), dry_run)

RECURSIVE PromoteFrom(_, _, _, _)
PromoteFrom(r, files, i, dry_run) ==
    IF i > Len(files) THEN r
    ELSE PromoteFrom(PromoteOne(r.w, r.stats, files[i],
                                P(FINAL_PATH, files[i].stem, files[i].ext), dry_run),
                     files, i + 1, dry_run)

CopiedBack(r, st) ==
    [w |-> r.w,
     stats |-> [st EXCEPT !.copied_to_camera = r.stats.processed,
                          !.skipped = @ + r.stats.skipped,
                          !.errors = @ + r.stats.errors]]

\* A copy-back phase that is given up when promotion counted an error: not
\* the code, which C11 tells from it.
CopyBackToCamera_StopOnErrors(p, dry_run) ==
    IF p.stats.errors > 0 \/ CAMERA_PATH \notin p.w.dirs THEN p
    ELSE IF CAMERA_FOLDER \notin p.w.dirs
    THEN [w |-> p.w, stats |-> Bump(p.stats, "errors")]
    ELSE CopiedBack(ProcessFiles(p.w, ScanForImages(p.w, FINAL_PATH, "JPG"),
                                 CAMERA_FOLDER, dry_run, FALSE),
                    p.stats)

\* Copy the final photos back onto the camera's first storage folder.
CopyBackToCamera(p, dry_run) ==
    IF CAMERA_PATH \notin p.w.dirs THEN p
    ELSE IF CAMERA_FOLDER \notin p.w.dirs
    THEN [w |-> p.w, stats |-> Bump(p.stats, "errors")]
    ELSE CopiedBack(ProcessFiles(p.w, ScanForImages(p.w, FINAL_PATH, "JPG"),
                                 CAMERA_FOLDER, dry_run, FALSE),
                    p.stats)

AfterRawUnlink(u, st, deleted) ==
    IF u.raised
    THEN [w |-> u.w, stats |-> Bump(st, "errors"), deleted |-> deleted]
    ELSE [w |-> u.w, stats |-> st, deleted |-> deleted + 1]

RECURSIVE DeleteRawsFrom(_, _, _, _)
DeleteRawsFrom(r, raws, i, dry_run) ==
    IF i > Len(raws)
    THEN [w |-> r.w, stats |-> [r.stats EXCEPT !.deleted_camera_raws = r.deleted]]
    ELSE IF dry_run
    THEN DeleteRawsFrom([r EXCEPT !.deleted = @ + 1], raws, i + 1, dry_run)
    ELSE DeleteRawsFrom(AfterRawUnlink(Unlink(r.w, raws[i]), r.stats, r.deleted),
                        raws, i + 1, dry_run)

\* A deletion phase that takes every camera RAW: not the code, which C16
\* tells from it.
DeleteCameraRaws_All(p, dry_run) ==
    IF CAMERA_PATH \notin p.w.dirs \/ FINAL_PATH \notin p.w.dirs THEN p
    ELSE DeleteRawsFrom([w |-> p.w, stats |-> p.stats, deleted |-> 0],
                        ScanCameraFiles(p.w, "RAF"), 1, dry_run)

\* Delete the camera RAWs whose stem has a JPG in the final library.
DeleteCameraRaws(p, dry_run) ==
    IF CAMERA_PATH \notin p.w.dirs \/ FINAL_PATH \notin p.w.dirs THEN p
    ELSE DeleteRawsFrom([w |-> p.w, stats |-> p.stats, deleted |-> 0],
                        SelectSeq2(ScanCameraFiles(p.w, "RAF"),
                                   StemsOf(ScanForImages(p.w, FINAL_PATH, "JPG"))),
                        1, dry_run)

\* The RAW backups whose stem has no JPG in the final library.
OrphanedRaws(w) ==
    SelectSeq2(ScanForImages(w, RAWS_PATH, "RAF"),
               Stems \ StemsOf(ScanForImages(w, FINAL_PATH, "JPG")))

OrphansDeleted(r, st) ==
    [w |-> r.w,
     stats |-> [st EXCEPT !.deleted_raws = r.stats.processed,
                          !.errors = @ + r.stats.errors]]

OrphanList(w, st, orphaned_raws, dry_run) ==
    IF ~dry_run /\ orphaned_raws # <<>>
    THEN OrphansDeleted(ProcessFiles(w, orphaned_raws, RAWS_PATH, dry_run, TRUE),
                        [st EXCEPT !.orphaned_raws = Len(orphaned_raws)])
    ELSE [w |-> w, stats |-> [st EXCEPT !.orphaned_raws = Len(orphaned_raws)]]

OrphanPhase(p, dry_run) ==
    IF RAWS_PATH \notin p.w.dirs \/ FINAL_PATH \notin p.w.dirs THEN p
    ELSE OrphanList(p.w, p.stats, OrphanedRaws(p.w), dry_run)

\* A promotion phase that creates the final directory in a dry run too: not
\* the code, which C17 tells from it.
PromotePhase_AlwaysMkdir(w, dry_run) ==
    PromoteFrom([w |-> Mkdir(w, FINAL_PATH), stats |-> ZeroFinalize],
                ScanForImages(w, STAGING_PATH, "JPG"), 1, dry_run)

PromotePhase(w, dry_run) ==
    PromoteFrom([w |-> IF dry_run THEN w ELSE Mkdir(w, FINAL_PATH), stats |-> ZeroFinalize],
                ScanForImages(w, STAGING_PATH, "JPG"), 1, dry_run)

OrphanedFrom(p, orphaned_raws, dry_run) ==
    IF RAWS_PATH \notin p.w.dirs \/ FINAL_PATH \notin p.w.dirs THEN p
    ELSE OrphanList(p.w, p.stats, orphaned_raws, dry_run)

\* A finalize whose orphan phase works from a scan of the final library
\* taken before promotion: not the code, which C22 tells from it.
FinalizeStaging_ScanFirst(w, dry_run) ==
    IF STAGING_PATH \notin w.dirs THEN [w |-> w, stats |-> ZeroFinalize]
    ELSE OrphanedFrom(DeleteCameraRaws(CopyBackToCamera(PromotePhase(w, dry_run), dry_run),
                                       dry_run),
                      OrphanedRaws(w), dry_run)

FinalizeStaging(w, dry_run) ==
    IF STAGING_PATH \notin w.dirs THEN [w |-> w, stats |-> ZeroFinalize]
    ELSE OrphanPhase(DeleteCameraRaws(CopyBackToCamera(PromotePhase(w, dry_run), dry_run),
                                      dry_run),
                     dry_run)

--------------------------------------------------------------------------
(* PhotoWorkflow.cleanup_unused_raws *)

ZeroCleanup == [orphaned |-> 0, deleted |-> 0, errors |-> 0]

CleanupDeleted(r, orphaned) ==
    [w |-> r.w,
     stats |-> [orphaned |-> orphaned, deleted |-> r.stats.processed,
                errors |-> r.stats.errors]]

\* A cleanup that counts the orphans only when it is to delete them: not
\* the code, which C13 tells from it.
CleanupList_CountOnDelete(w, orphaned_raws, dry_run) ==
    IF ~dry_run /\ orphaned_raws # <<>>
    THEN CleanupDeleted(ProcessFiles(w, orphaned_raws, RAWS_PATH, dry_run, TRUE),
                        Len(orphaned_raws))
    ELSE [w |-> w, stats |-> ZeroCleanup]

CleanupList(w, orphaned_raws, dry_run) ==
    IF ~dry_run /\ orphaned_raws # <<>>
    THEN CleanupDeleted(ProcessFiles(w, orphaned_raws, RAWS_PATH, dry_run, TRUE),
                        Len(orphaned_raws))
    ELSE [w |-> w, stats |-> [ZeroCleanup EXCEPT !.orphaned = Len(orphaned_raws)]]

CleanupUnusedRaws(w, dry_run) ==
    IF RAWS_PATH \notin w.dirs \/ FINAL_PATH \notin w.dirs
    THEN [w |-> w, stats |-> ZeroCleanup]
    ELSE CleanupList(w, OrphanedRaws(w), dry_run)

--------------------------------------------------------------------------
(* MetadataExtractor.extract_metadata, as far as the rating goes *)

\* The Rating field of the image's metadata, which recompression carries
\* over: 0 when the image cannot be opened or holds no valid rating.
Rating(bytes) ==
    IF ~Decodable(bytes) THEN 0
    ELSE IF Len(bytes) = 2
    THEN (IF bytes[1] % 10 \in 0..5 THEN bytes[1] % 10 ELSE 0)
    ELSE IF bytes[2] \in 0..5 THEN bytes[2] ELSE 0

\* An extraction that reads the rating of a file it cannot open: not the
\* code, which C28 tells from it.
ExtractRating_Regardless(w, p) == Rating(w.fs[p].bytes)

\* metadata.get('rating', 0)
ExtractRating(w, p) == IF p \in w.env.unread THEN 0 ELSE Rating(w.fs[p].bytes)

HighRated(w, final_jpgs) ==
    LET Test(p) == ExtractRating(w, p) >= 4 IN SelectSeq(final_jpgs, Test)

--------------------------------------------------------------------------
(* External commands: npm run build, rsync.  A command that runs leaves a  *)
(* line in the log, whether it ended well or not.                          *)

Shell(name) == P("", 0, name)

Cmd(w, name, ok) ==
    Logged(w, Ev(IF ok THEN "ran" ELSE "failed", Shell(name), Shell(name)))

--------------------------------------------------------------------------
(* PhotoWorkflow.sync_gallery *)

MetadataJson == P(GALLERY_PATH, 0, "JSON")

\* raised: the call ended in an exception instead of returning its stats
ZeroSync ==
    [scanned |-> 0, synced |-> 0, removed |-> 0, skipped |-> 0, unchanged |-> 0,
     errors |-> 0, json_updated |-> FALSE, total_in_gallery |-> 0,
     build_successful |-> FALSE, sync_successful |-> FALSE, raised |-> FALSE]

AfterRemove(u, st, img_path) ==
    IF u.raised
    THEN [w |-> Logged(u.w, Ev("error", img_path, img_path)), stats |-> Bump(st, "errors")]
    ELSE [w |-> u.w, stats |-> Bump(st, "removed")]

RECURSIVE RemoveFrom(_, _, _)
RemoveFrom(r, images_to_remove, i) ==
    IF i > Len(images_to_remove) THEN r
    ELSE RemoveFrom(AfterRemove(Unlink(r.w, images_to_remove[i]), r.stats,
                                images_to_remove[i]),
                    images_to_remove, i + 1)

\* Remove images that no longer qualify
RemoveOld(p, images_to_remove, dry_run) ==
    IF dry_run \/ images_to_remove = <<>> THEN p
    ELSE RemoveFrom(p, images_to_remove, 1)

GalleryCopied(r, st) ==
    [w |-> r.w,
     stats |-> [st EXCEPT !.synced = r.stats.processed,
                          !.skipped = r.stats.skipped,
                          !.errors = @ + r.stats.errors]]

\* Copy high-rated images to gallery
CopyNew(p, images_to_copy, dry_run) ==
    IF images_to_copy = <<>> THEN p
    ELSE GalleryCopied(ProcessFiles(p.w, images_to_copy, GALLERY_IMAGES, dry_run, FALSE),
                       p.stats)

AfterUpdateCopy(sc, st, src_path, dst_path) ==
    IF sc.ok
    THEN [w |-> Logged(sc.w, Ev("copied", src_path, dst_path)), stats |-> Bump(st, "synced")]
    ELSE [w |-> Logged(sc.w, Ev("error", src_path, dst_path)), stats |-> Bump(st, "errors")]

\* An update loop that takes every image for unchanged: not the code,
\* which C15 tells from it.
AfterUpdateCheck_NeverCopies(d, st, src_path, dst_path, dry_run) ==
    [w |-> Logged(d.w, Ev("skip", src_path, dst_path)), stats |-> Bump(st, "unchanged")]

\* An error of the check is counted, and the image is copied all the same.
AfterUpdateCheck(d, st, src_path, dst_path, dry_run) ==
    IF d.err = "" /\ d.dup
    THEN [w |-> Logged(d.w, Ev("skip", src_path, dst_path)), stats |-> Bump(st, "unchanged")]
    ELSE IF dry_run
    THEN [w |-> d.w, stats |-> Bump(IF d.err # "" THEN Bump(st, "errors") ELSE st, "synced")]
    ELSE AfterUpdateCopy(SafeCopy(d.w, src_path, dst_path),
                         IF d.err # "" THEN Bump(st, "errors") ELSE st,
                         src_path, dst_path)

\* Update images that have changed
RECURSIVE UpdateFrom(_, _, _, _)
UpdateFrom(r, images_to_update, i, dry_run) ==
    IF i > Len(images_to_update) THEN r
    ELSE UpdateFrom(AfterUpdateCheck(
                        IsDuplicate(r.w, images_to_update[i],
                                    P(GALLERY_IMAGES, images_to_update[i].stem, "JPG")),
                        r.stats, images_to_update[i],
                        P(GALLERY_IMAGES, images_to_update[i].stem, "JPG"), dry_run),
                    images_to_update, i + 1, dry_run)

\* Calculate total images in gallery after sync
CountGallery(p, estimate, dry_run) ==
    [w |-> p.w,
     stats |-> [p.stats EXCEPT !.total_in_gallery =
                    IF dry_run THEN estimate
                    ELSE Len(ScanForImages(p.w, GALLERY_IMAGES, "JPG"))]]

\* MetadataExtractor.generate_metadata_json: the entries of the high-rated
\* images, written anew on every run.
WriteMetadataJson(p, high_rated_images, dry_run) ==
    IF dry_run \/ MetadataJson \in p.w.env.raise THEN p
    ELSE [w |-> Written(Mkdir(p.w, GALLERY_PATH), MetadataJson, MetadataJson, "json",
                        File([i \in 1..Len(high_rated_images) |-> high_rated_images[i].stem],
                             p.w.now)),
          stats |-> [p.stats EXCEPT !.json_updated = TRUE]]

\* rsync of the dist folder to the remote server; without rsync,
\* subprocess.run raises FileNotFoundError, which nothing catches.
PublishDist(p) ==
    IF p.w.env.norsync THEN [w |-> p.w, stats |-> [p.stats EXCEPT !.raised = TRUE]]
    ELSE IF "publish" \in p.w.env.fail
    THEN [w |-> Cmd(p.w, "publish", FALSE), stats |-> Bump(p.stats, "errors")]
    ELSE [w |-> Cmd(p.w, "publish", TRUE),
          stats |-> [p.stats EXCEPT !.build_successful = TRUE, !.sync_successful = TRUE]]

\* npm run build in the gallery project; without npm, subprocess.run raises
\* FileNotFoundError, which nothing catches.
BuildGallery(p, dry_run) ==
    IF dry_run THEN p
    ELSE IF p.w.env.nonpm THEN [w |-> p.w, stats |-> [p.stats EXCEPT !.raised = TRUE]]
    ELSE IF "build" \in p.w.env.fail
    THEN [w |-> Cmd(p.w, "build", FALSE), stats |-> Bump(p.stats, "errors")]
    ELSE PublishDist([w |-> Mkdir(Cmd(p.w, "build", TRUE), DIST_PATH), stats |-> p.stats])

\* Images to remove (in gallery but no longer high-rated)
ImagesToRemove(high_rated_images, existing_gallery_images) ==
    SelectSeq2(existing_gallery_images, Stems \ StemsOf(high_rated_images))

\* Images to copy (high-rated but not in gallery)
ImagesToCopy(high_rated_images, existing_gallery_images) ==
    SelectSeq2(high_rated_images, Stems \ StemsOf(existing_gallery_images))

\* An update list of all the high-rated images: not the code, which C24
\* tells from it.
ImagesToUpdate_All(high_rated_images, existing_gallery_images) ==
    high_rated_images

\* Images to update (high-rated and already in gallery)
ImagesToUpdate(high_rated_images, existing_gallery_images) ==
    SelectSeq2(high_rated_images, StemsOf(existing_gallery_images))

SyncLists(w, scanned, high_rated_images, existing_gallery_images, dry_run) ==
    BuildGallery(
        WriteMetadataJson(
            CountGallery(
                UpdateFrom(
                    CopyNew(
                        RemoveOld([w |-> w, stats |-> [ZeroSync EXCEPT !.scanned = scanned]],
                                  ImagesToRemove(high_rated_images, existing_gallery_images),
                                  dry_run),
                        ImagesToCopy(high_rated_images, existing_gallery_images),
                        dry_run),
                    ImagesToUpdate(high_rated_images, existing_gallery_images),
                    1, dry_run),
                Len(SelectSeq2(existing_gallery_images, StemsOf(high_rated_images)))
                + Len(ImagesToCopy(high_rated_images, existing_gallery_images)),
                dry_run),
            high_rated_images, dry_run),
        dry_run)

SyncGallery(w, dry_run) ==
    IF FINAL_PATH \notin w.dirs THEN [w |-> w, stats |-> ZeroSync]
    ELSE SyncLists(IF dry_run THEN w ELSE Mkdir(Mkdir(w, GALLERY_PATH), GALLERY_IMAGES),
                   Len(ScanForImages(w, FINAL_PATH, "JPG")),
                   HighRated(w, ScanForImages(w, FINAL_PATH, "JPG")),
                   IF GALLERY_IMAGES \in w.dirs
                   THEN ScanForImages(w, GALLERY_IMAGES, "JPG") ELSE <<>>,
                   dry_run)

--------------------------------------------------------------------------
(* PhotoWorkflow.backup_final_to_homelab *)

ZeroBackup ==
    [scanned |-> 0, sync_successful |-> FALSE, errors |-> 0, connection_method |-> "None"]

\* for method, ssh_cmd in ssh_configs: rsync over that transport (with -n in
\* a dry run); the first that ends well is returned.
RECURSIVE TryFrom(_, _, _)
TryFrom(p, ssh_configs, i) ==
    IF i > Len(ssh_configs) THEN p
    ELSE IF ssh_configs[i] \in p.w.env.fail
    THEN TryFrom([w |-> Cmd(p.w, ssh_configs[i], FALSE),
                  stats |-> IF ssh_configs[i] = "proxyjump"
                            THEN Bump(p.stats, "errors") ELSE p.stats],
                 ssh_configs, i + 1)
    ELSE [w |-> Cmd(p.w, ssh_configs[i], TRUE),
          stats |-> [p.stats EXCEPT !.sync_successful = TRUE,
                                    !.connection_method = ssh_configs[i]]]

\* A backup that tries the jump host first: not the code, which C18 tells
\* from it.
BackupFinalToHomelab_JumpFirst(w, dry_run) ==
    IF FINAL_PATH \notin w.dirs THEN [w |-> w, stats |-> ZeroBackup]
    ELSE IF w.env.norsync THEN [w |-> w, stats |-> Bump(ZeroBackup, "errors")]
    ELSE TryFrom([w |-> w,
                  stats |-> [ZeroBackup EXCEPT
                                !.scanned = Len(ScanForImages(w, FINAL_PATH, "JPG"))]],
                 <<"proxyjump", "direct">>, 1)

BackupFinalToHomelab(w, dry_run) ==
    IF FINAL_PATH \notin w.dirs THEN [w |-> w, stats |-> ZeroBackup]
    ELSE IF w.env.norsync THEN [w |-> w, stats |-> Bump(ZeroBackup, "errors")]
    ELSE TryFrom([w |-> w,
                  stats |-> [ZeroBackup EXCEPT
                                !.scanned = Len(ScanForImages(w, FINAL_PATH, "JPG"))]],
                 <<"direct", "proxyjump">>, 1)

--------------------------------------------------------------------------
(* cli.cleanup: the preview, the question, the deletion *)

\* calls: the dry_run argument of each call of cleanup_unused_raws, in
\* order; asked: the confirmation prompt was shown.
Previewed(preview, asked) ==
    [w |-> preview.w,
     stats |-> [preview |-> preview.stats, result |-> preview.stats,
                calls |-> <<TRUE>>, asked |-> asked]]

Deleted(preview, r) ==
    [w |-> r.w,
     stats |-> [preview |-> preview.stats, result |-> r.stats,
                calls |-> <<TRUE, FALSE>>, asked |-> TRUE]]

\* A command that deletes without waiting for the answer: not the code,
\* which C14 tells from it.
AfterPreview_Unasked(preview, dry_run) ==
    IF dry_run \/ preview.stats.orphaned = 0 THEN Previewed(preview, FALSE)
    ELSE Deleted(preview, CleanupUnusedRaws(preview.w, FALSE))

\* click.confirm(..., default=False)
AfterPreview(preview, dry_run) ==
    IF dry_run \/ preview.stats.orphaned = 0 THEN Previewed(preview, FALSE)
    ELSE IF ~preview.w.env.answer THEN Previewed(preview, TRUE)
    ELSE Deleted(preview, CleanupUnusedRaws(preview.w, FALSE))

CliCleanup(w, dry_run) == AfterPreview(CleanupUnusedRaws(w, TRUE), dry_run)

--------------------------------------------------------------------------
(* Initial directory trees *)

JpgBytes(s) == <<s, 7, 1>>
JpgEdited(s) == <<s, 8, 1>>
JpgCorrupt(s) == <<0, 7, 1>>
RafBytes(s) == <<s, 2>>
RafEdited(s) == <<s, 3>>
MovBytes(s) == [i \in 1..(LargeThreshold + 2) |-> IF i = 1 THEN s ELSE 4]
MovMidEdited(s) == [i \in 1..(LargeThreshold + 2) |-> IF i = 1 THEN s ELSE IF i = 2 THEN 5 ELSE 4]

\* What one stem can look like at the start: which of its three camera files
\* exist, and what its staged JPG, RAW backup, final JPG and archived video are.
PhotoCfgs ==
    [cj : BOOLEAN, cr : BOOLEAN, cm : {FALSE},
     st : {"none", "same", "edited", "edited_later", "corrupt"},
     rw : {"none", "same"},
     fn : {"none", "compressed", "same"},
     sv : {"none"}]

VideoCfgs ==
    [cj : {FALSE}, cr : {FALSE}, cm : BOOLEAN,
     st : {"none"}, rw : {"none"}, fn : {"none", "compressed"},
     sv : {"none", "same", "mid_edited"}]

EmptyCfg ==
    [cj |-> FALSE, cr |-> FALSE, cm |-> FALSE,
     st |-> "none", rw |-> "none", fn |-> "none", sv |-> "none"]

PlainCfgs ==
    {EmptyCfg,
     [EmptyCfg EXCEPT !.cj = TRUE],
     [EmptyCfg EXCEPT !.st = "same"],
     [EmptyCfg EXCEPT !.st = "corrupt"],
     [EmptyCfg EXCEPT !.rw = "same"]}

CfgFile(c, p) ==
    IF p.dir = CAMERA_FOLDER
    THEN IF p.ext = "JPG" /\ c.cj THEN File(JpgBytes(p.stem), 1)
         ELSE IF p.ext = "RAF" /\ c.cr THEN File(RafBytes(p.stem), 1)
         ELSE IF p.ext = "MOV" /\ c.cm THEN File(MovBytes(p.stem), 1)
         ELSE NoFile
    ELSE IF p.dir = STAGING_PATH
    THEN IF c.st = "same" THEN File(JpgBytes(p.stem), 1)
         ELSE IF c.st = "edited" THEN File(JpgEdited(p.stem), 1)
         ELSE IF c.st = "edited_later" THEN File(JpgEdited(p.stem), 2)
         ELSE IF c.st = "corrupt" THEN File(JpgCorrupt(p.stem), 1)
         ELSE NoFile
    ELSE IF p.dir = RAWS_PATH
    THEN IF c.rw = "same" THEN File(RafBytes(p.stem), 1)
         ELSE IF c.rw = "edited" THEN File(RafEdited(p.stem), 1)
         ELSE NoFile
    ELSE IF p.dir = FINAL_PATH
    THEN IF c.fn = "compressed" THEN File(Recompress(JpgBytes(p.stem)), 2)
         ELSE IF c.fn = "same" THEN File(JpgBytes(p.stem), 1)
         ELSE NoFile
    ELSE IF p.dir = SSD_PATH
    THEN IF c.sv = "same" THEN File(MovBytes(p.stem), 1)
         ELSE IF c.sv = "mid_edited" THEN File(MovMidEdited(p.stem), 1)
         ELSE NoFile
    ELSE NoFile

\* What a stem after the second can look like
SpareCfgs ==
    {EmptyCfg, [EmptyCfg EXCEPT !.cj = TRUE], [EmptyCfg EXCEPT !.st = "same"]}

\* The first stem is drawn from the rich configurations, the second from
\* the plain ones, the others from the spare ones.
StartTrees ==
    {[s \in Stems |-> IF s = 1 THEN c ELSE rest[s]] :
        c \in PhotoCfgs \cup VideoCfgs,
        rest \in {r \in [Stems \ {1} -> PlainCfgs] :
                     \A s \in Stems \ {1, 2} : r[s] \in SpareCfgs}}

TreeFs(t) == [p \in Paths |-> CfgFile(t[p.stem], p)]

Populated(f) == {p.dir : p \in {q \in Paths : f[q].exists}}

\* The directories of a tree: a directory that holds files exists; an empty
\* one exists unless the tree is bare; the camera is mounted or not.
TreeDirs(f, camera, bare) ==
    LET full == Populated(f)
        cam == IF camera \/ CAMERA_FOLDER \in full THEN {CAMERA_PATH, CAMERA_FOLDER} ELSE {}
        rest == IF bare THEN full \ {CAMERA_FOLDER} ELSE FileDirs \ {CAMERA_FOLDER}
    IN cam \cup rest \cup {TMP_PATH}

NoRun ==
    [op |-> "none", prev |-> "none", dry |-> FALSE, rerun |-> FALSE, killed |-> FALSE,
     log |-> <<>>]

Init ==
    /\ \E t \in StartTrees, camera \in BOOLEAN, bare \in BOOLEAN :
          /\ camera \/ CAMERA_FOLDER \notin Populated(TreeFs(t))
          /\ bare => \A s \in Stems \ {1} : t[s] = EmptyCfg
          /\ fs = TreeFs(t)
          /\ dirs = TreeDirs(TreeFs(t), camera, bare)
    /\ cache = {}
    /\ last = NoRun

--------------------------------------------------------------------------
(* The environment of one run: nothing goes wrong, or files of one         *)
(* directory cannot be read, written or deleted, or exiftool is missing,   *)
(* or the process is killed at one of its first steps.                     *)

StemSets == {{s} : s \in Stems} \cup {Stems}

In(d, S) == {p \in Paths : p.dir = d /\ p.stem \in S}

Kills ==
    {[NoFaults EXCEPT !.killAt = k, !.killMode = m] :
        k \in 0..(MaxSteps - 1), m \in {"before", "partial", "nostat", "done"}}

EnvsOver(readDirs, writeDirs, unlinkDirs) ==
    {NoFaults}
    \cup {[NoFaults EXCEPT !.unread = In(d, S)] : d \in readDirs, S \in StemSets}
    \cup {[NoFaults EXCEPT !.raise = In(d, S)] : d \in writeDirs, S \in StemSets}
    \cup {[NoFaults EXCEPT !.garble = In(d, S)] : d \in writeDirs, S \in StemSets}
    \cup {[NoFaults EXCEPT !.garble = In(d, S), !.garbleAt = 2] :
              d \in writeDirs \cap {SSD_PATH}, S \in StemSets}
    \cup {[NoFaults EXCEPT !.nounlink = In(d, S)] : d \in unlinkDirs, S \in StemSets}
    \cup Kills

ImportEnvs ==
    EnvsOver({CAMERA_FOLDER, SSD_PATH, STAGING_PATH, RAWS_PATH},
             {SSD_PATH, STAGING_PATH, RAWS_PATH}, {CAMERA_FOLDER})

FinalizeEnvs ==
    EnvsOver({STAGING_PATH, FINAL_PATH, CAMERA_FOLDER, RAWS_PATH},
             {FINAL_PATH, CAMERA_FOLDER}, {STAGING_PATH, CAMERA_FOLDER, RAWS_PATH})
    \cup {[NoFaults EXCEPT !.noexiftool = TRUE]}

CleanupEnvs == EnvsOver({RAWS_PATH}, {}, {RAWS_PATH})

--------------------------------------------------------------------------
(* One command, one process.  Temporary files carry fresh names, so what a  *)
(* run leaves in the temporary directory is never seen again.               *)

Persisted(w) == [p \in Paths |-> IF p.dir = TMP_PATH THEN NoFile ELSE w.fs[p]]

Ran(op, dry_run, env, rerun, r) ==
    /\ fs' = Persisted(r.w)
    /\ dirs' = r.w.dirs
    /\ cache' = {}
    /\ last' = [op |-> op, prev |-> last.op, dry |-> dry_run, env |-> env, rerun |-> rerun,
                killed |-> r.w.dead, log |-> r.w.log, prevlog |-> last.log,
                stats |-> r.stats, pre |-> fs, predirs |-> dirs]

Fresh == last.op = "none"

Import ==
    /\ Fresh
    /\ \E dry_run \in BOOLEAN, env \in ImportEnvs :
          /\ dry_run => env = NoFaults
          /\ \E r \in {ImportFromCamera(World(fs, dirs, {}, env), dry_run)} :
                Ran("import", dry_run, env, FALSE, r)

Finalize ==
    /\ Fresh
    /\ \E dry_run \in BOOLEAN, env \in FinalizeEnvs :
          /\ dry_run => env = NoFaults
          /\ \E r \in {FinalizeStaging(World(fs, dirs, {}, env), dry_run)} :
                Ran("finalize", dry_run, env, FALSE, r)

Cleanup ==
    /\ Fresh
    /\ \E dry_run \in BOOLEAN, env \in CleanupEnvs :
          /\ dry_run => env = NoFaults
          /\ \E r \in {CleanupUnusedRaws(World(fs, dirs, {}, env), dry_run)} :
                Ran("cleanup", dry_run, env, FALSE, r)

RunAgain(op, w) ==
    IF op = "import" THEN ImportFromCamera(w, FALSE)
    ELSE IF op = "finalize" THEN FinalizeStaging(w, FALSE)
    ELSE CleanupUnusedRaws(w, FALSE)

\* The command is run again after the process was killed.
Rerun ==
    /\ last.killed
    /\ last.prev = "none"
    /\ \E r \in {RunAgain(last.op, World(fs, dirs, {}, NoFaults))} :
          Ran(last.op, FALSE, NoFaults, TRUE, r)

\* An import that follows a finalize which ran to its end.
ImportAfterFinalize ==
    /\ last.op = "finalize"
    /\ last.prev = "none"
    /\ ~last.killed
    /\ ~last.dry
    /\ \E r \in {ImportFromCamera(World(fs, dirs, {}, NoFaults), FALSE)} :
          Ran("import", FALSE, NoFaults, FALSE, r)

\* A finalize that follows an import which ran to its end with errors.
FinalizeAfterImport ==
    /\ last.op = "import"
    /\ last.prev = "none"
    /\ ~last.killed
    /\ ~last.dry
    /\ last.stats.errors > 0
    /\ \E r \in {FinalizeStaging(World(fs, dirs, {}, NoFaults), FALSE)} :
          Ran("finalize", FALSE, NoFaults, FALSE, r)

Next == Import \/ Finalize \/ Cleanup \/ Rerun \/ ImportAfterFinalize \/ FinalizeAfterImport

Spec == Init /\ [][Next]_vars

--------------------------------------------------------------------------
(* The commands that work on the final library: gallery sync, backup and   *)
(* cleanup.  A library tree holds, per stem, a final JPG rated 3 or 5 or   *)
(* none, and either a gallery image (the final JPG's copy, an earlier      *)
(* version, or a copy that was damaged on the way and kept the source's    *)
(* size and timestamp) or a RAW backup.                                    *)

RatedJpg(s, rating) == Recompress(<<s, rating, 1>>)

LibraryCfgs ==
    [fn : {"none", "low", "high"}, ga : {"none", "same", "old", "damaged"}, rw : {"none"}]
    \cup [fn : {"none", "high"}, ga : {"none"}, rw : {"same"}]

LibraryFile(c, p) ==
    IF p.dir = FINAL_PATH
    THEN IF c.fn = "low" THEN File(RatedJpg(p.stem, 3), 2)
         ELSE IF c.fn = "high" THEN File(RatedJpg(p.stem, 5), 2)
         ELSE NoFile
    ELSE IF p.dir = GALLERY_IMAGES
    THEN IF c.ga = "same" THEN File(RatedJpg(p.stem, 5), 2)
         ELSE IF c.ga = "old" THEN File(RatedJpg(p.stem, 4), 1)
         ELSE IF c.ga = "damaged" THEN File(Garbled(RatedJpg(p.stem, 5), 1), 2)
         ELSE NoFile
    ELSE IF p.dir = RAWS_PATH /\ c.rw = "same" THEN File(RafBytes(p.stem), 1)
    ELSE NoFile

LibraryFs(t) == [p \in Paths |-> IF p.stem \in Stems THEN LibraryFile(t[p.stem], p) ELSE NoFile]

\* A directory that holds files exists, and so does the gallery project
\* above its images; an empty one exists unless the tree is bare.
LibraryDirs(f, bare) ==
    LET full == Populated(f)
    IN (IF bare THEN full ELSE {STAGING_PATH, RAWS_PATH, FINAL_PATH, GALLERY_IMAGES})
       \cup (IF ~bare \/ GALLERY_IMAGES \in full THEN {GALLERY_PATH} ELSE {})
       \cup {TMP_PATH}

\* The first stem is drawn from all the configurations, the others from
\* these.
PlainLibraryCfgs ==
    {[fn |-> "none", ga |-> "none", rw |-> "none"],
     [fn |-> "high", ga |-> "none", rw |-> "none"],
     [fn |-> "high", ga |-> "same", rw |-> "none"],
     [fn |-> "none", ga |-> "old", rw |-> "none"],
     [fn |-> "none", ga |-> "none", rw |-> "same"]}

LibraryTrees ==
    {[s \in Stems |-> IF s = 1 THEN c ELSE rest[s]] :
        c \in LibraryCfgs, rest \in [Stems \ {1} -> PlainLibraryCfgs]}

InitCli ==
    /\ \E t \in LibraryTrees, bare \in BOOLEAN :
          /\ fs = LibraryFs(t)
          /\ dirs = LibraryDirs(LibraryFs(t), bare)
    /\ cache = {}
    /\ last = NoRun

SyncEnvs ==
    {NoFaults}
    \cup {[NoFaults EXCEPT !.unread = In(d, S)] : d \in {FINAL_PATH, GALLERY_IMAGES}, S \in StemSets}
    \cup {[NoFaults EXCEPT !.raise = In(GALLERY_IMAGES, S)] : S \in StemSets}
    \cup {[NoFaults EXCEPT !.garble = In(GALLERY_IMAGES, S)] : S \in StemSets}
    \cup {[NoFaults EXCEPT !.nounlink = In(GALLERY_IMAGES, S)] : S \in StemSets}
    \cup {[NoFaults EXCEPT !.raise = {MetadataJson}]}
    \cup {[NoFaults EXCEPT !.nonpm = TRUE], [NoFaults EXCEPT !.norsync = TRUE]}
    \cup {[NoFaults EXCEPT !.fail = {c}] : c \in {"build", "publish"}}

BackupEnvs ==
    {NoFaults, [NoFaults EXCEPT !.norsync = TRUE]}
    \cup {[NoFaults EXCEPT !.fail = F] : F \in {{"direct"}, {"proxyjump"}, {"direct", "proxyjump"}}}

GallerySync ==
    /\ Fresh
    /\ \E dry_run \in BOOLEAN, env \in SyncEnvs :
          \E r \in {SyncGallery(World(fs, dirs, {}, env), dry_run)} :
              Ran("sync_gallery", dry_run, env, FALSE, r)

Backup ==
    /\ Fresh
    /\ \E dry_run \in BOOLEAN, env \in BackupEnvs :
          \E r \in {BackupFinalToHomelab(World(fs, dirs, {}, env), dry_run)} :
              Ran("backup", dry_run, env, FALSE, r)

CommandEnvs ==
    {[env EXCEPT !.answer = a] : env \in {e \in CleanupEnvs : e.killAt = -1}, a \in BOOLEAN}

CleanupCommand ==
    /\ Fresh
    /\ \E dry_run \in BOOLEAN, env \in CommandEnvs :
          \E r \in {CliCleanup(World(fs, dirs, {}, env), dry_run)} :
              Ran("cleanup_command", dry_run, env, FALSE, r)

NextCli == GallerySync \/ Backup \/ CleanupCommand

SpecCli == InitCli /\ [][NextCli]_vars

--------------------------------------------------------------------------
(* Dry runs: each of the four operations called with dry_run=True, on the  *)
(* trees of both kinds and in every environment.                            *)

DryCall(op, w) ==
    IF op = "import" THEN ImportFromCamera(w, TRUE)
    ELSE IF op = "finalize" THEN FinalizeStaging(w, TRUE)
    ELSE IF op = "cleanup" THEN CleanupUnusedRaws(w, TRUE)
    ELSE SyncGallery(w, TRUE)

\* A process killed at its first step, or not at all
DryEnvs(op) ==
    {env \in IF op = "import" THEN ImportEnvs
             ELSE IF op = "finalize" THEN FinalizeEnvs
             ELSE IF op = "cleanup" THEN CleanupEnvs
             ELSE SyncEnvs : env.killAt <= 0}

DryRun ==
    /\ Fresh
    /\ \E op \in {"import", "finalize", "cleanup", "sync_gallery"} :
          \E env \in DryEnvs(op) :
              \E r \in {DryCall(op, World(fs, dirs, {}, env))} :
                  Ran(op, TRUE, env, FALSE, r)

SpecDry == (Init \/ InitCli) /\ [][DryRun]_vars

--------------------------------------------------------------------------
(* The file manager called directly: one process, whose fingerprint cache   *)
(* lives from call to call.  The sources are camera files of one kind, all  *)
(* bound for the same destination file.                                     *)

MaxCalls == 3

\* Two sources for the one destination
FMStems == {1, 2}

Src(kind, s) == P(CAMERA_FOLDER, s, kind)

Dst(kind) == IF kind = "MOV" THEN P(SSD_PATH, 1, "MOV") ELSE P(STAGING_PATH, 1, "JPG")

SrcBytes(kind, s) == IF kind = "MOV" THEN MovBytes(s) ELSE JpgBytes(s)

\* What the destination holds at the start: nothing, a copy of the first
\* source, a file of the same size that differs in the middle (with the
\* source's timestamp or a later one), a shorter file, or a copy of the
\* second source.
DstStarts(kind) ==
    {NoFile,
     File(SrcBytes(kind, 1), 1),
     File(IF kind = "MOV" THEN MovMidEdited(1) ELSE JpgEdited(1), 1),
     File(IF kind = "MOV" THEN MovMidEdited(1) ELSE JpgEdited(1), 2),
     File(Prefix(SrcBytes(kind, 1)), 2),
     File(SrcBytes(kind, 2), 1)}

FMFs(kind, missing, d) ==
    [p \in Paths |->
        IF p = Dst(kind) THEN d
        ELSE IF p.dir = CAMERA_FOLDER /\ p.ext = kind /\ p.stem \in FMStems \ missing
        THEN File(SrcBytes(kind, p.stem), 1)
        ELSE NoFile]

NoCall(kind) ==
    [op |-> "none", n |-> 0, kind |-> kind, src |-> Src(kind, 1), dst |-> Dst(kind),
     ok |-> FALSE, dup |-> FALSE, hash |-> <<>>, err |-> "", copied |-> FALSE,
     again |-> FALSE, stale |-> FALSE, partial |-> TRUE, unread |-> {}]

\* The destination directory is there, or it is still to be made.
InitFM ==
    \E kind \in {"JPG", "MOV"}, missing \in {{}} \cup {{s} : s \in FMStems} :
        \E d \in DstStarts(kind), nodir \in BOOLEAN :
            /\ nodir => d = NoFile
            /\ fs = FMFs(kind, missing, d)
            /\ dirs = IF nodir THEN AllDirs \ {Dst(kind).dir} ELSE AllDirs
            /\ cache = {}
            /\ last = NoCall(kind)

FMEnvs(kind) ==
    {NoFaults}
    \cup {[NoFaults EXCEPT !.unread = {p}] : p \in {Src(kind, 1), Dst(kind)}}
    \cup {[NoFaults EXCEPT !.raise = {Dst(kind)}]}
    \cup {[NoFaults EXCEPT !.garble = {Dst(kind)}, !.garbleAt = at] : at \in 1..2}
    \cup {[NoFaults EXCEPT !.nomkdir = TRUE]}

\* A cached digest that is not the digest of the file's bytes
Stale(c, f, p) ==
    \E e \in c : /\ f[p].exists
                 /\ e.key = CacheKey(p, f[p], TRUE)
                 /\ e.digest # Md5(HashedRange(f[p].bytes, TRUE))

Copied(log) == \E i \in 1..Len(log) : log[i].ev \in {"copy", "partial"}

CalledWith(op, src, partial, r) ==
    /\ last.n < MaxCalls
    /\ fs' = r.w.fs
    /\ dirs' = r.w.dirs
    /\ cache' = r.w.cache
    /\ last' = [NoCall(last.kind) EXCEPT
                    !.op = op, !.n = last.n + 1, !.src = src,
                    !.copied = Copied(r.w.log),
                    !.again = (last.op = "safe_copy" /\ last.src = src /\ last.ok),
                    !.stale = Stale(cache, fs, src) \/ Stale(cache, fs, last.dst),
                    !.ok = IF op = "safe_copy" THEN r.ok ELSE FALSE,
                    !.dup = IF op = "is_duplicate" THEN r.dup ELSE FALSE,
                    !.hash = IF op = "get_file_hash" THEN r.hash ELSE <<>>,
                    !.partial = partial,
                    !.unread = r.w.env.unread,
                    !.err = r.err]

Called(op, src, r) == CalledWith(op, src, TRUE, r)

FMSafeCopy ==
    \E s \in FMStems, env \in FMEnvs(last.kind) :
        \E r \in {SafeCopy(World(fs, dirs, cache, env), Src(last.kind, s), last.dst)} :
            Called("safe_copy", Src(last.kind, s), r)

FMIsDuplicate ==
    \E s \in FMStems, env \in FMEnvs(last.kind) :
        /\ env.raise = {} /\ env.garble = {} /\ ~env.nomkdir
        /\ \E r \in {IsDuplicate(World(fs, dirs, cache, env), Src(last.kind, s), last.dst)} :
              Called("is_duplicate", Src(last.kind, s), r)

FMGetFileHash ==
    \E p \in {Src(last.kind, 1), last.dst}, partial \in BOOLEAN :
        \E env \in {NoFaults, [NoFaults EXCEPT !.unread = {p}]} :
            \E r \in {GetFileHash(World(fs, dirs, cache, env), p, partial)} :
                CalledWith("get_file_hash", p, partial, r)

NextFM == FMSafeCopy \/ FMIsDuplicate \/ FMGetFileHash

SpecFM == InitFM /\ [][NextFM]_vars

--------------------------------------------------------------------------
(* Orphan detection from call to call: cleanup_unused_raws is called, the   *)
(* user adds a JPG to the final library or takes one out of it, and cleanup *)
(* is called again; or a finalize runs and a cleanup follows it.  Each call *)
(* is a process of its own.                                                 *)

Scanned(op, dry_run, env, r) ==
    /\ fs' = Persisted(r.w)
    /\ dirs' = r.w.dirs
    /\ cache' = {}
    /\ last' = [op |-> op, prev |-> last.op, dry |-> dry_run, env |-> env, rerun |-> FALSE,
                killed |-> r.w.dead, log |-> r.w.log, prevlog |-> last.log,
                stats |-> r.stats, pre |-> fs, predirs |-> dirs,
                earlier |-> IF last.op = "edit" THEN last.stats.orphaned
                            ELSE IF last.op = "finalize" THEN last.stats.orphaned_raws
                            ELSE 0]

FirstCleanup ==
    /\ Fresh
    /\ \E dry_run \in BOOLEAN, env \in {e \in CleanupEnvs : e.killAt < 0} :
          /\ dry_run => env = NoFaults
          /\ \E r \in {CleanupUnusedRaws(World(fs, dirs, {}, env), dry_run)} :
                Scanned("cleanup", dry_run, env, r)

\* Between two calls the user puts a JPG into the final library or removes
\* one from it.
EditFinal ==
    /\ last.op = "cleanup" /\ last.prev = "none"
    /\ FINAL_PATH \in dirs
    /\ \E s \in Stems :
          /\ fs' = [fs EXCEPT ![P(FINAL_PATH, s, "JPG")] =
                        IF @.exists THEN NoFile ELSE File(JpgBytes(s), Now(fs))]
          /\ last' = [last EXCEPT
                        !.op = "edit", !.prev = "cleanup",
                        !.log = <<Ev(IF fs[P(FINAL_PATH, s, "JPG")].exists
                                     THEN "removed" ELSE "added",
                                     P(FINAL_PATH, s, "JPG"), P(FINAL_PATH, s, "JPG"))>>]
    /\ UNCHANGED <<dirs, cache>>

FirstFinalize ==
    /\ Fresh
    /\ \E env \in {NoFaults, [NoFaults EXCEPT !.noexiftool = TRUE]} :
          \E r \in {FinalizeStaging(World(fs, dirs, {}, env), FALSE)} :
              Scanned("finalize", FALSE, env, r)

NextCleanup ==
    /\ last.op \in {"edit", "finalize"}
    /\ \E dry_run \in BOOLEAN :
          \E r \in {CleanupUnusedRaws(World(fs, dirs, {}, NoFaults), dry_run)} :
              Scanned("cleanup", dry_run, NoFaults, r)

NextOrphans == FirstCleanup \/ EditFinal \/ FirstFinalize \/ NextCleanup

SpecOrphans == Init /\ [][NextOrphans]_vars

--------------------------------------------------------------------------
(* _process_files called directly, once or twice in one process, with the   *)
(* file lists and destinations its callers give it.                         *)

\* (source directory, extension, destination, delete_original) of the calls
\* in import_from_camera, finalize_staging and cleanup_unused_raws
ProcessCalls ==
    {<<CAMERA_FOLDER, "MOV", SSD_PATH, TRUE>>,
     <<CAMERA_FOLDER, "JPG", STAGING_PATH, TRUE>>,
     <<CAMERA_FOLDER, "RAF", RAWS_PATH, TRUE>>,
     <<FINAL_PATH, "JPG", CAMERA_FOLDER, FALSE>>,
     <<RAWS_PATH, "RAF", RAWS_PATH, TRUE>>}

ProcessEnvs(c) ==
    {e \in EnvsOver({c[1], c[3]}, {c[3]}, {c[1]}) : e.killAt < 0}

Processed(c, files, env, r) ==
    /\ fs' = r.w.fs
    /\ dirs' = r.w.dirs
    /\ cache' = r.w.cache
    /\ last' = [op |-> "process_files", prev |-> last.op, dry |-> FALSE, env |-> env,
                rerun |-> FALSE, killed |-> r.w.dead, log |-> r.w.log,
                prevlog |-> last.log, stats |-> r.stats, pre |-> fs, predirs |-> dirs,
                call |-> c, files |-> files, delete_original |-> c[4]]

ProcessCallOf(c, env) ==
    /\ c[1] \in dirs
    /\ \E files \in {ScanForImages(World(fs, dirs, cache, env), c[1], c[2])} :
          \E r \in {ProcessFiles(World(fs, dirs, cache, env), files, c[3], FALSE, c[4])} :
              Processed(c, files, env, r)

ProcessCall ==
    /\ Fresh
    /\ \E c \in ProcessCalls : \E env \in ProcessEnvs(c) : ProcessCallOf(c, env)

\* The same call once more in the same process, nothing failing this time
ProcessAgain ==
    /\ last.op = "process_files" /\ last.prev = "none"
    /\ ProcessCallOf(last.call, NoFaults)

NextProcess == ProcessCall \/ ProcessAgain

SpecProcess == Init /\ [][NextProcess]_vars

--------------------------------------------------------------------------
(* scan_for_images on file names.  An extension is a word in a casing; a    *)
(* name is a stem behind one of the prefixes of the platforms' metadata     *)
(* files, or none, with an extension; an entry lies in the directory or in  *)
(* a folder below it.                                                       *)

Casings == {"upper", "lower", "mixed"}

\* str.upper(), str.lower()
Upper(ext) == [ext EXCEPT !.casing = "upper"]
Lower(ext) == [ext EXCEPT !.casing = "lower"]

MetaPrefixes == {"._", ".DS_Store", "Thumbs.db"}

\* is_valid_image_file
IsValidImageFile(e) == e.prefix \notin MetaPrefixes

\* directory.glob('*.' + ext): the entries directly in the directory whose
\* name ends in the extension; pathlib compares the case of the letters on
\* POSIX and ignores it on Windows.
Glob(listing, ext, posix) ==
    {e \in listing : /\ ~e.nested
                     /\ IF posix THEN e.ext = ext ELSE e.ext.word = ext.word}

RECURSIVE InOrder(_)
InOrder(S) ==
    IF S = {} THEN <<>>
    ELSE LET e == CHOOSE x \in S : TRUE IN <<e>> \o InOrder(S \ {e})

\* return upper_files + lower_files
ScanNames(listing, extension, posix) ==
    InOrder({f \in Glob(listing, Upper(extension), posix) : IsValidImageFile(f)})
    \o InOrder({f \in Glob(listing, Lower(extension), posix) : IsValidImageFile(f)})

\* What one stem is in the directory: nothing, or one entry
EntryCfgs ==
    {[prefix |-> "", ext |-> [word |-> "jpg", casing |-> c], nested |-> FALSE] : c \in Casings}
    \cup {[prefix |-> "", ext |-> [word |-> "raf", casing |-> "upper"], nested |-> FALSE],
          [prefix |-> "", ext |-> [word |-> "jpg", casing |-> "upper"], nested |-> TRUE]}
    \cup {[prefix |-> p, ext |-> [word |-> "jpg", casing |-> "upper"], nested |-> FALSE] :
              p \in MetaPrefixes}

Entry(s, c) == [stem |-> s, prefix |-> c.prefix, ext |-> c.ext, nested |-> c.nested]

NoScan == [op |-> "none", extension |-> [word |-> "jpg", casing |-> "upper"],
           posix |-> TRUE, files |-> <<>>]

InitScan ==
    /\ \E present \in SUBSET Stems :
          \E t \in [present -> EntryCfgs] :
              fs = {Entry(s, t[s]) : s \in present}
    /\ dirs = {}
    /\ cache = {}
    /\ last = NoScan

\* The extension is given with or without its dot, which the function
\* strips, and in any casing.
Scan ==
    /\ last.op = "none"
    /\ \E word \in {"jpg", "raf"}, c \in Casings, posix \in BOOLEAN :
          last' = [op |-> "scan_for_images",
                   extension |-> [word |-> word, casing |-> c],
                   posix |-> posix,
                   files |-> ScanNames(fs, [word |-> word, casing |-> c], posix)]
    /\ UNCHANGED <<fs, dirs, cache>>

NextScan == Scan

SpecScan == InitScan /\ [][NextScan]_vars

--------------------------------------------------------------------------
(* compress_jpeg_safe step by step, with every file it touches: the input,  *)
(* the output, the temporary file, the backup it makes beside the output    *)
(* (output_path + '.backup'), and a file that has no part in the call.      *)

CompressNames == {"input", "output", "tmp", "other"}

CPath(n) == [name |-> n, backup |-> FALSE]

\* output_path.with_suffix(output_path.suffix + '.backup')
BackupPath(p) == [p EXCEPT !.backup = TRUE]

CompressPaths == {CPath(n) : n \in CompressNames} \cup {BackupPath(CPath(n)) : n \in {"input", "output"}}

\* What can go wrong in a call, one thing at a time: exiftool is not
\* installed, the input cannot be opened, img.save raises, exiftool exits
\* non-zero, the verification fails, the copy to the backup raises before or
\* after it wrote a part, the replace raises, the unlink of the backup raises.
CompressFaults ==
    {"none", "noexiftool", "unread", "save", "exiftool", "verify",
     "backup_denied", "backup_partial", "replace", "unlink_backup"}

\* tmp_path.unlink(missing_ok=True); return False
CompressFailed(f) == [fs |-> [f EXCEPT ![CPath("tmp")] = NoFile], ok |-> FALSE]

\* except: restore from backup if replace failed
RestoreBackup(f, input_path, output_path) ==
    IF f[BackupPath(output_path)].exists /\ output_path = input_path
    THEN CompressFailed([f EXCEPT ![input_path] = f[BackupPath(output_path)],
                                  ![BackupPath(output_path)] = NoFile])
    ELSE CompressFailed(f)

\* if backup_path.exists(): backup_path.unlink()
RemoveBackup(f, fault, input_path, output_path) ==
    IF ~f[BackupPath(output_path)].exists THEN [fs |-> f, ok |-> TRUE]
    ELSE IF fault = "unlink_backup" THEN RestoreBackup(f, input_path, output_path)
    ELSE [fs |-> [f EXCEPT ![BackupPath(output_path)] = NoFile], ok |-> TRUE]

\* tmp_path.replace(output_path)
ReplaceOutput(f, fault, input_path, output_path) ==
    IF fault = "replace" THEN RestoreBackup(f, input_path, output_path)
    ELSE RemoveBackup([f EXCEPT ![output_path] = f[CPath("tmp")], ![CPath("tmp")] = NoFile],
                      fault, input_path, output_path)

\* if output_path == input_path: shutil.copy2(input_path, backup_path)
BackupInput(f, fault, input_path, output_path) ==
    IF output_path # input_path THEN ReplaceOutput(f, fault, input_path, output_path)
    ELSE IF fault = "backup_denied" THEN RestoreBackup(f, input_path, output_path)
    ELSE IF fault = "backup_partial"
    THEN RestoreBackup([f EXCEPT ![BackupPath(output_path)] =
                            File(Prefix(f[input_path].bytes), 2)],
                       input_path, output_path)
    ELSE ReplaceOutput([f EXCEPT ![BackupPath(output_path)] = f[input_path]],
                       fault, input_path, output_path)

CompressJpegSafeSteps(f, fault, input_path, output_path) ==
    IF fault = "noexiftool" THEN [fs |-> f, ok |-> FALSE]
    ELSE IF \/ ~f[input_path].exists \/ ~Decodable(f[input_path].bytes)
            \/ fault \in {"unread", "save", "exiftool", "verify"}
    THEN CompressFailed(f)
    ELSE BackupInput([f EXCEPT ![CPath("tmp")] = File(Recompress(f[input_path].bytes), 2)],
                     fault, input_path, output_path)

NoCompress == [op |-> "none", in_place |-> FALSE, fault |-> "none", ok |-> FALSE]

\* The input is a photo, a damaged photo or missing; the output, the two
\* backup names and the other file hold older files or nothing.
InitCompress ==
    /\ \E i \in {File(JpgBytes(1), 1), File(JpgCorrupt(1), 1), NoFile},
          o \in {NoFile, File(JpgEdited(2), 1)},
          bi \in {NoFile, File(RafBytes(1), 1)},
          bo \in {NoFile, File(RafBytes(2), 1)} :
          fs = [p \in CompressPaths |->
                   IF p = CPath("input") THEN i
                   ELSE IF p = CPath("output") THEN o
                   ELSE IF p = BackupPath(CPath("input")) THEN bi
                   ELSE IF p = BackupPath(CPath("output")) THEN bo
                   ELSE IF p = CPath("other") THEN File(JpgBytes(2), 1)
                   ELSE NoFile]
    /\ dirs = {}
    /\ cache = {}
    /\ last = NoCompress

\* output_path is given, or left out: the input is compressed in place.
Compress ==
    /\ last.op = "none"
    /\ \E in_place \in BOOLEAN, fault \in CompressFaults :
          \E r \in {CompressJpegSafeSteps(fs, fault, CPath("input"),
                                         IF in_place THEN CPath("input")
                                         ELSE CPath("output"))} :
              /\ fs' = r.fs
              /\ last' = [op |-> "compress_jpeg_safe", in_place |-> in_place,
                          fault |-> fault, ok |-> r.ok, pre |-> fs]
    /\ UNCHANGED <<dirs, cache>>

NextCompress == Compress

SpecCompress == InitCompress /\ [][NextCompress]_vars

--------------------------------------------------------------------------
(* What the claims speak of                                                 *)

CameraFiles(f) == {p \in Paths : p.dir = CAMERA_FOLDER /\ f[p].exists}

\* Where import sends a camera file
Target(p) ==
    P(IF p.ext = "MOV" THEN SSD_PATH ELSE IF p.ext = "JPG" THEN STAGING_PATH ELSE RAWS_PATH,
      p.stem, p.ext)

\* The stems of the JPGs the final library held when the run started
FinalStems == {p.stem : p \in {q \in Paths : q.dir = FINAL_PATH /\ last.pre[q].exists}}

Events(kinds, p) ==
    {i \in 1..Len(last.log) : last.log[i].ev \in kinds /\ last.log[i].src = p}

WriteEvents(d) ==
    {i \in 1..Len(last.log) : last.log[i].ev \in {"copy", "partial"} /\ last.log[i].dst = d}

SameFingerprint(a, b) ==
    Len(a) = Len(b) /\ HashedRange(a, TRUE) = HashedRange(b, TRUE)

--------------------------------------------------------------------------
\* C1: in import and in every transfer that deletes its originals, a source
\* file disappears only through an unlink that directly follows the success
\* of safe_copy for that same file, which followed an actual copy, and the
\* destination then has the source's size and fingerprint; a dry run changes
\* nothing, and a file for which the duplicate check or the copy failed is
\* left as it was.
C1_DeleteOnlyAfterVerifiedCopy ==
    last.op \in {"import", "cleanup"} =>
        /\ last.dry => (fs = last.pre /\ last.log = <<>>)
        /\ \A p \in Paths :
              (last.pre[p].exists /\ ~fs[p].exists) =>
                 \E i \in 3..Len(last.log) :
                    /\ last.log[i] = Ev("unlink", p, p)
                    /\ last.log[i - 1].ev = "copied" /\ last.log[i - 1].src = p
                    /\ last.log[i - 2] = Ev("copy", p, last.log[i - 1].dst)
                    /\ fs[last.log[i - 1].dst].exists
                    /\ SameFingerprint(fs[last.log[i - 1].dst].bytes, last.pre[p].bytes)
        /\ \A i \in 1..Len(last.log) :
              last.log[i].ev = "error" => fs[last.log[i].src] = last.pre[last.log[i].src]

C1_Witness ==
    /\ last.op = "import" /\ ~last.dry
    /\ \E i \in 1..Len(last.log) : last.log[i].ev = "unlink"
    /\ \E i \in 1..Len(last.log) :
          last.log[i].ev = "error" /\ WriteEvents(last.log[i].dst) # {}

--------------------------------------------------------------------------
\* C3, as stated: a cleanup that is not a dry run removes every RAW backup
\* whose stem has no JPG in the final library, keeps every other one, and
\* reports orphaned = the number of orphans and deleted = the number of
\* files removed.
C3_CleanupRemovesOrphans ==
    (/\ last.op = "cleanup" /\ ~last.dry /\ ~last.killed /\ last.env = NoFaults
     /\ {RAWS_PATH, FINAL_PATH} \subseteq last.predirs) =>
        LET raws == {p \in Paths : p.dir = RAWS_PATH /\ last.pre[p].exists}
            orphans == {p \in raws : p.stem \notin FinalStems}
        IN /\ \A p \in orphans : ~fs[p].exists
           /\ \A p \in raws \ orphans : fs[p] = last.pre[p]
           /\ last.stats.orphaned = Cardinality(orphans)
           /\ last.stats.deleted = Cardinality({p \in raws : ~fs[p].exists})

\* The RAW backup holds stems 1 and 2, the final library stem 1 alone: the
\* run reports one orphan, deletes nothing and leaves the orphan in place.
C3_Scenario ==
    /\ last.op = "cleanup" /\ ~last.dry /\ last.env = NoFaults
    /\ {p.stem : p \in {q \in Paths : q.dir = RAWS_PATH /\ last.pre[q].exists}} = {1, 2}
    /\ FinalStems = {1}
    /\ last.stats = [orphaned |-> 1, deleted |-> 0, errors |-> 0]
    /\ fs = last.pre

--------------------------------------------------------------------------
\* C9, as stated: import transfers no camera file, of any kind, whose stem
\* is the stem of a JPG in the final library at the start of the import.
C9_NoFinalizedStemTransferred ==
    last.op = "import" =>
        \A p \in CameraFiles(last.pre) :
            p.stem \in FinalStems =>
                /\ fs[p] = last.pre[p]
                /\ fs[Target(p)] = last.pre[Target(p)]
                /\ Events({"copy", "partial", "copied", "skip", "error", "unlink"}, p) = {}

\* C9, amended: import transfers no camera JPG and no camera RAF whose stem
\* is the stem of a JPG in the final library at the start of the import;
\* these files stay on the camera, nothing is written for them, and each
\* counts once in 'skipped' (next to the files skipped as duplicates).
C9_NoFinalizedPhotoTransferred ==
    last.op = "import" =>
        LET finalized == {p \in CameraFiles(last.pre) :
                             p.ext \in {"JPG", "RAF"} /\ p.stem \in FinalStems}
        IN /\ \A p \in finalized :
                 /\ fs[p] = last.pre[p]
                 /\ fs[Target(p)] = last.pre[Target(p)]
                 /\ Events({"copy", "partial", "copied", "skip", "error", "unlink"}, p) = {}
           /\ ~last.killed =>
                 last.stats.skipped =
                    Cardinality(finalized)
                    + Cardinality({i \in 1..Len(last.log) : last.log[i].ev = "skip"})

\* An import after a finalize that copied a final photo back onto the
\* camera, next to a camera photo that is transferred.
C9_Witness ==
    /\ last.op = "import" /\ last.prev = "finalize"
    /\ \E p \in CameraFiles(last.pre) :
          /\ p.ext = "JPG" /\ p.stem \in FinalStems
          /\ last.pre[p].bytes = last.pre[P(FINAL_PATH, p.stem, "JPG")].bytes
          /\ fs[p].exists
    /\ \E i \in 1..Len(last.log) : last.log[i].ev = "copied"

--------------------------------------------------------------------------
\* C10: a camera JPG that is byte-identical to the staged file of the same
\* name, and whose stem is not in the final library, is not copied by an
\* import that is not a dry run: nothing is written to the staged file and
\* the camera original stays (so it is never removed without a verified
\* copy); when nothing fails the file is reported as skipped, and when it is
\* the only camera file the counts are photos=0, skipped=1, errors=0.
C10_IdenticalStagedIsSkipped ==
    (last.op = "import" /\ ~last.dry) =>
        \A p \in CameraFiles(last.pre) :
            (/\ p.ext = "JPG" /\ p.stem \notin FinalStems
             /\ last.pre[Target(p)].exists
             /\ last.pre[Target(p)].bytes = last.pre[p].bytes) =>
                /\ WriteEvents(Target(p)) = {}
                /\ fs[Target(p)] = last.pre[Target(p)]
                /\ fs[p] = last.pre[p]
                /\ Events({"unlink"}, p) = {}
                /\ (last.env = NoFaults /\ ~last.killed) =>
                      /\ Events({"skip"}, p) # {}
                      /\ CameraFiles(last.pre) = {p} =>
                            last.stats = [videos |-> 0, photos |-> 0, raws |-> 0,
                                          skipped |-> 1, errors |-> 0]

C10_Witness ==
    /\ last.op = "import" /\ ~last.dry /\ last.env = NoFaults
    /\ \E p \in CameraFiles(last.pre) :
          /\ CameraFiles(last.pre) = {p}
          /\ p.ext = "JPG" /\ p.stem \notin FinalStems
          /\ last.pre[Target(p)].exists
          /\ last.pre[Target(p)].bytes = last.pre[p].bytes
    /\ last.stats.skipped = 1

--------------------------------------------------------------------------
(* Finalize over a batch of staged photos, the camera not connected and no  *)
(* staged photo identical to its file in the final library                  *)

Staged == {p \in Paths : p.dir = STAGING_PATH /\ last.pre[p].exists}

FinalOf(p) == P(FINAL_PATH, p.stem, p.ext)

BatchFinalize ==
    /\ last.op = "finalize" /\ ~last.dry /\ ~last.killed
    /\ STAGING_PATH \in last.predirs
    /\ CAMERA_PATH \notin last.predirs
    /\ \A p \in Staged :
          ~(last.pre[FinalOf(p)].exists /\ last.pre[FinalOf(p)].bytes = last.pre[p].bytes)

\* The photos whose compression, copy or verification failed
Failures == {p \in Staged : Events({"compress_failed", "copy_failed"}, p) # {}}

\* The errors of the orphan phase, which follows the batch
OrphanErrors ==
    {i \in 1..Len(last.log) : last.log[i].ev = "error" /\ last.log[i].src.dir = RAWS_PATH}

\* C4, as stated: every staged photo whose compression and verified copy
\* succeed is in the final library and gone from staging, every photo whose
\* compression, verification or copy fails is untouched in staging, and
\* moved = compressed = the number of successes, errors = the number of
\* failures (the orphan phase adding no error of its own).
C4_SuccessesMovedFailuresKept ==
    (BatchFinalize /\ OrphanErrors = {}) =>
        /\ \A p \in Staged \ Failures :
              /\ ~fs[p].exists
              /\ fs[FinalOf(p)].exists
              /\ fs[FinalOf(p)].bytes = Recompress(last.pre[p].bytes)
        /\ \A p \in Failures : fs[p] = last.pre[p]
        /\ last.stats.moved = Cardinality(Staged \ Failures)
        /\ last.stats.compressed = Cardinality(Staged \ Failures)
        /\ last.stats.errors = Cardinality(Failures)

\* C4, amended: every staged photo is processed exactly once, whatever
\* happened to the photos before it.  A photo whose compression and verified
\* copy succeed is in the final library, recompressed; it is gone from
\* staging and counted in moved and compressed if its staged file could be
\* deleted, and otherwise stays in staging and counts as one error.  A
\* photo whose compression, verification or copy fails is untouched in
\* staging and counts as one error.  errors holds, besides, the errors of
\* the orphan phase.
C4_EachPhotoMovedOrKept ==
    BatchFinalize =>
        LET moved == {p \in Staged : Events({"moved"}, p) # {}}
            undeleted == {p \in Staged : Events({"error"}, p) # {}}
        IN /\ \A p \in Staged :
                 Cardinality(Events({"moved", "error", "compress_failed", "copy_failed"}, p)) = 1
           /\ \A p \in moved \cup undeleted :
                 /\ fs[FinalOf(p)].exists
                 /\ fs[FinalOf(p)].bytes = Recompress(last.pre[p].bytes)
           /\ \A p \in moved : ~fs[p].exists
           /\ \A p \in Staged \ moved : fs[p] = last.pre[p]
           /\ last.stats.moved = Cardinality(moved)
           /\ last.stats.compressed = Cardinality(moved)
           /\ last.stats.errors =
                 Cardinality(Failures) + Cardinality(undeleted) + Cardinality(OrphanErrors)

\* Two staged photos of which the first is corrupt: the second is moved
\* all the same.
C4_Witness ==
    /\ BatchFinalize
    /\ Cardinality(Staged) = 2
    /\ \E p \in Staged, q \in Staged :
          /\ p.stem < q.stem
          /\ Events({"compress_failed"}, p) # {}
          /\ Events({"moved"}, q) # {}
    /\ last.stats.moved = 1 /\ last.stats.compressed = 1 /\ last.stats.errors = 1

--------------------------------------------------------------------------
\* The answer of the duplicate check for a file of the run and its
\* destination, as the run gets it on the files it started with
CheckAtStart(src, dst) ==
    IsDuplicate(World(last.pre, last.predirs, {}, [last.env EXCEPT !.killAt = -1]), src, dst)

\* C5, as stated: in the transfer loop and in the promotion loop, a file
\* whose duplicate check ends in an error is treated as failed: nothing is
\* written to its destination.
C5_ErrorNeverOverwrites ==
    /\ (last.op = "import" /\ ~last.dry) =>
          \A p \in CameraFiles(last.pre) :
              CheckAtStart(p, Target(p)).err # "" =>
                  (WriteEvents(Target(p)) = {} /\ fs[Target(p)] = last.pre[Target(p)])
    /\ (last.op = "finalize" /\ ~last.dry /\ STAGING_PATH \in last.predirs) =>
          \A p \in Staged :
              CheckAtStart(p, FinalOf(p)).err # "" =>
                  (WriteEvents(FinalOf(p)) = {} /\ fs[FinalOf(p)] = last.pre[FinalOf(p)])

\* The transfer loop alone does treat the error as a failure.
C5_TransferLoopStops ==
    /\ last.op = "import" /\ ~last.dry
    /\ \E p \in CameraFiles(last.pre) :
          /\ CheckAtStart(p, Target(p)).err # ""
          /\ Events({"error"}, p) # {}
          /\ fs[Target(p)] = last.pre[Target(p)]

--------------------------------------------------------------------------
\* A destination that holds a proper beginning of the source's bytes
PartCopy(d, s) ==
    /\ d.exists /\ s.exists
    /\ Len(d.bytes) < Len(s.bytes)
    /\ d.bytes = SubSeq(s.bytes, 1, Len(d.bytes))

\* C8: whatever the step at which an import is killed (before a copy, part
\* way through the bytes, after the bytes, after the copy and before the
\* verification, before the delete of the source), every camera file is
\* afterwards intact on the camera or fully at its destination; and when
\* the import is run again, a destination that holds only part of its
\* source is not skipped as a duplicate but written again, after which it
\* holds the source's bytes and the source is gone from the camera.
C8_InterruptedTransferResumes ==
    (last.op = "import" /\ last.env \in Kills \cup {NoFaults}) =>
        /\ \A p \in CameraFiles(last.pre) :
              \/ fs[p] = last.pre[p]
              \/ fs[Target(p)].exists /\ fs[Target(p)].bytes = last.pre[p].bytes
        /\ last.rerun =>
              \A p \in CameraFiles(last.pre) :
                  (/\ PartCopy(last.pre[Target(p)], last.pre[p])
                   /\ (p.ext = "MOV" \/ p.stem \notin FinalStems)) =>
                      /\ Events({"skip"}, p) = {}
                      /\ WriteEvents(Target(p)) # {}
                      /\ fs[Target(p)].exists
                      /\ fs[Target(p)].bytes = last.pre[p].bytes
                      /\ ~fs[p].exists

C8_Witness ==
    /\ last.op = "import" /\ last.rerun
    /\ \E p \in CameraFiles(last.pre) :
          /\ PartCopy(last.pre[Target(p)], last.pre[p])
          /\ ~fs[p].exists
          /\ fs[Target(p)].bytes = last.pre[p].bytes

--------------------------------------------------------------------------
(* The file manager's own contract, on the calls of one process             *)

\* The fingerprint of a file's bytes as they are
Fingerprint(f) == Md5(HashedRange(f.bytes, TRUE))

\* C2, as stated: whenever safe_copy returns success, the destination
\* exists and has the size and the fingerprint of the source, as the files
\* are at that moment; and a copy that completed without the check
\* confirming it never ends in success.
C2_SuccessMeansIdentical ==
    (last.op = "safe_copy" /\ last.ok) =>
        /\ fs[last.src].exists /\ fs[last.dst].exists
        /\ Len(fs[last.src].bytes) = Len(fs[last.dst].bytes)
        /\ Fingerprint(fs[last.src]) = Fingerprint(fs[last.dst])

\* A copy whose bytes arrived damaged ends in 'Verification failed'.
C2_DamagedCopyRefused ==
    /\ last.op = "safe_copy" /\ last.copied
    /\ fs[last.dst].exists /\ fs[last.dst].bytes # fs[last.src].bytes
    /\ ~last.ok /\ last.err = "Verification failed"

--------------------------------------------------------------------------
\* C6: a safe_copy that directly follows a successful safe_copy of the same
\* source to the same destination, in the same process, succeeds too,
\* copies no byte and leaves every file as it was.
C6_SafeCopyIdempotent ==
    [][(/\ last'.op = "safe_copy" /\ last'.again) =>
          (/\ last'.ok
           /\ ~last'.copied
           /\ fs' = fs)]_vars

\* The first call copied the bytes, the second call followed it.
C6_Witness ==
    /\ last.op = "safe_copy" /\ last.again /\ last.n = 2
    /\ last.ok /\ ~last.copied
    /\ fs[last.dst].exists /\ fs[last.dst].bytes = fs[last.src].bytes

--------------------------------------------------------------------------
\* C7, as stated: on two readable files of any size, is_duplicate answers
\* true exactly when the destination exists and holds the bytes of the
\* source.
C7_DuplicateIffIdentical ==
    (last.op = "is_duplicate" /\ last.n = 1 /\ last.err = "") =>
        (last.dup <=> (fs[last.dst].exists /\ fs[last.dst].bytes = fs[last.src].bytes))

\* C7, amended: when no fingerprint cached by the process is out of date,
\* is_duplicate answers true exactly when the destination exists, has the
\* size of the source and the same first and last MiB, which for files of
\* at most 10 MiB is exactly when the two hold the same bytes; so it is
\* never false for a true copy and never true for files of different size.
C7_DuplicateIffSameSizeHeadTail ==
    (last.op = "is_duplicate" /\ last.err = "" /\ ~last.stale) =>
        LET s == fs[last.src].bytes
            d == fs[last.dst].bytes
            n == Len(s)
        IN /\ (fs[last.dst].exists /\ d = s) => last.dup
           /\ last.dup => (fs[last.dst].exists /\ Len(d) = n)
           /\ (n <= LargeThreshold) => (last.dup <=> (fs[last.dst].exists /\ d = s))
           /\ (n > LargeThreshold /\ fs[last.dst].exists /\ Len(d) = n) =>
                 (last.dup <=>
                     /\ SubSeq(d, 1, PartialBlock) = SubSeq(s, 1, PartialBlock)
                     /\ SubSeq(d, n - PartialBlock + 1, n) = SubSeq(s, n - PartialBlock + 1, n))

\* Two photos of the same size that differ in the middle are told apart.
C7_Witness ==
    /\ last.op = "is_duplicate" /\ last.err = "" /\ ~last.stale
    /\ fs[last.dst].exists
    /\ Len(fs[last.dst].bytes) = Len(fs[last.src].bytes)
    /\ Len(fs[last.src].bytes) <= LargeThreshold
    /\ fs[last.dst].bytes # fs[last.src].bytes
    /\ ~last.dup

--------------------------------------------------------------------------
(* A finalize that ran to its end, the staging directory present           *)

FullFinalize ==
    /\ last.op = "finalize" /\ ~last.dry /\ ~last.killed
    /\ STAGING_PATH \in last.predirs

\* The phase a logged step belongs to, read from the file it worked on: a
\* staged photo or its temporary file (1), a final photo (2), a camera
\* file (3), a RAW backup (4)
PhaseOf(e) ==
    IF e.src.dir \in {STAGING_PATH, TMP_PATH} THEN 1
    ELSE IF e.src.dir = FINAL_PATH THEN 2
    ELSE IF e.src.dir = CAMERA_FOLDER THEN 3
    ELSE 4

LogIn(kinds, d) ==
    {i \in 1..Len(last.log) : last.log[i].ev \in kinds /\ last.log[i].src.dir = d}

\* The final library as the later phases scan it
FinalNow == {p \in Paths : p.dir = FINAL_PATH /\ fs[p].exists}

\* The camera RAWs whose stem has a JPG in the final library after promotion
FinalizedCameraRaws ==
    {p \in CameraFiles(last.pre) : p.ext = "RAF" /\ p.stem \in {q.stem : q \in FinalNow}}

RawBackups(f) == {p \in Paths : p.dir = RAWS_PATH /\ f[p].exists}

\* C11: a finalize that finds the staging directory runs promotion, copy
\* back to the camera, deletion of finalized camera RAWs and the orphan
\* phase in that order; whatever failed earlier, every final photo is offered
\* to the camera, every finalized camera RAW is deleted or counted as an
\* error, and the orphans are counted; errors is the sum of the failures of
\* the four phases and each phase reports its own counter.
C11_PhasesRunInOrder ==
    FullFinalize =>
        /\ \A i, j \in 1..Len(last.log) :
              i < j => PhaseOf(last.log[i]) <= PhaseOf(last.log[j])
        /\ CAMERA_PATH \in last.predirs =>
              /\ \A p \in FinalNow : Events({"copied", "skip", "error"}, p) # {}
              /\ \A p \in FinalizedCameraRaws : ~fs[p].exists \/ p \in last.env.nounlink
        /\ last.stats.orphaned_raws =
              Cardinality({p \in RawBackups(last.pre) : p.stem \notin {q.stem : q \in FinalNow}})
        /\ last.stats.errors =
              Cardinality(LogIn({"compress_failed", "copy_failed", "error"}, STAGING_PATH))
              + Cardinality(LogIn({"error"}, FINAL_PATH))
              + Cardinality({p \in FinalizedCameraRaws : fs[p].exists})
              + Cardinality(OrphanErrors)
        /\ last.stats.moved = Cardinality(LogIn({"moved"}, STAGING_PATH))
        /\ last.stats.copied_to_camera = Cardinality(LogIn({"copied"}, FINAL_PATH))
        /\ last.stats.deleted_camera_raws =
              Cardinality({p \in FinalizedCameraRaws : ~fs[p].exists})
        /\ last.stats.deleted_raws =
              Cardinality({p \in RawBackups(last.pre) : ~fs[p].exists})

\* A staged photo fails in promotion; all the same a final photo is copied
\* to the camera, a finalized camera RAW is deleted and an orphan is counted.
C11_Witness ==
    /\ FullFinalize
    /\ LogIn({"compress_failed", "copy_failed"}, STAGING_PATH) # {}
    /\ LogIn({"copied"}, FINAL_PATH) # {}
    /\ \E p \in FinalizedCameraRaws : ~fs[p].exists
    /\ last.stats.orphaned_raws >= 1
    /\ last.stats.errors >= 1

--------------------------------------------------------------------------
\* The run found a hard precondition unmet: the directory it works from is
\* missing, or a tool it needs is not installed.
PreconditionFailed ==
    \/ /\ last.op = "finalize"
       /\ STAGING_PATH \notin last.predirs \/ last.env.noexiftool
    \/ /\ last.op \in {"cleanup", "cleanup_command"}
       /\ RAWS_PATH \notin last.predirs \/ FINAL_PATH \notin last.predirs
    \/ /\ last.op = "sync_gallery"
       /\ FINAL_PATH \notin last.predirs \/ last.env.nonpm \/ last.env.norsync
    \/ /\ last.op = "backup"
       /\ FINAL_PATH \notin last.predirs \/ last.env.norsync

\* C12, as stated: a run that finds a hard precondition unmet returns
\* without creating, modifying or deleting any file or directory and
\* without running any command.
C12_PreconditionFailureChangesNothing ==
    PreconditionFailed => (fs = last.pre /\ dirs = last.predirs /\ last.log = <<>>)

\* npm is not installed, the final library holds a photo rated 5 and the
\* gallery does not hold it yet: sync_gallery copies the photo into the
\* gallery, writes metadata.json and then ends in an exception.
C12_Scenario ==
    /\ last.op = "sync_gallery" /\ ~last.dry /\ last.env.nonpm
    /\ \E p \in Paths :
          /\ p.dir = GALLERY_IMAGES
          /\ ~last.pre[p].exists /\ fs[p].exists
    /\ ~last.pre[MetadataJson].exists /\ fs[MetadataJson].exists
    /\ last.stats.raised

--------------------------------------------------------------------------
\* The RAW backups without a final JPG of their stem, when the run started
OrphansAtStart ==
    IF {RAWS_PATH, FINAL_PATH} \subseteq last.predirs
    THEN {p \in RawBackups(last.pre) : p.stem \notin FinalStems}
    ELSE {}

\* C13: the dry-run call of cleanup_unused_raws, which the cleanup command
\* makes first, deletes nothing and returns deleted = 0, errors = 0 and
\* orphaned = the number of RAW backups without a final JPG; the call with
\* dry_run=False that follows it on the same directory state computes the
\* same orphaned count.
C13_DryRunCountsWithoutDeleting ==
    last.op = "cleanup_command" =>
        /\ last.stats.calls[1] = TRUE
        /\ last.stats.preview =
              [orphaned |-> Cardinality(OrphansAtStart), deleted |-> 0, errors |-> 0]
        /\ last.stats.calls = <<TRUE>> => (fs = last.pre /\ dirs = last.predirs)
        /\ last.stats.calls = <<TRUE, FALSE>> =>
              last.stats.result.orphaned = last.stats.preview.orphaned

\* The preview finds an orphan that cannot be deleted, and the deletion is
\* called after it.
C13_Witness ==
    /\ last.op = "cleanup_command"
    /\ last.stats.calls = <<TRUE, FALSE>>
    /\ last.stats.preview.orphaned >= 1
    /\ last.env.nounlink # {}

--------------------------------------------------------------------------
\* C14: the cleanup command calls cleanup_unused_raws with dry_run=True
\* first; it asks for confirmation exactly when --dry-run was not given and
\* the preview found an orphan, and calls cleanup_unused_raws with
\* dry_run=False, once and after the preview, exactly when it asked and
\* the answer was yes; in every other case the directories are as they
\* were and no RAW backup is deleted.
C14_DeleteOnlyAfterPreviewAndYes ==
    last.op = "cleanup_command" =>
        /\ last.stats.calls \in {<<TRUE>>, <<TRUE, FALSE>>}
        /\ last.stats.asked = (~last.dry /\ last.stats.preview.orphaned >= 1)
        /\ (last.stats.calls = <<TRUE, FALSE>>) = (last.stats.asked /\ last.env.answer)
        /\ last.stats.calls = <<TRUE>> =>
              /\ fs = last.pre
              /\ last.log = <<>>

\* The preview finds an orphan, the user is asked and says no.
C14_Witness ==
    /\ last.op = "cleanup_command" /\ ~last.dry
    /\ last.stats.preview.orphaned >= 1
    /\ last.stats.asked /\ ~last.env.answer
    /\ last.stats.calls = <<TRUE>>
    /\ fs = last.pre

--------------------------------------------------------------------------
(* A gallery sync during which every file could be read, written and       *)
(* deleted                                                                  *)

CleanSync ==
    /\ last.op = "sync_gallery" /\ ~last.dry
    /\ FINAL_PATH \in last.predirs
    /\ last.env.unread = {} /\ last.env.raise = {}
    /\ last.env.garble = {} /\ last.env.nounlink = {}

GalleryOf(p) == P(GALLERY_IMAGES, p.stem, "JPG")

\* The final JPGs rated 4 or more
Qualifying ==
    {p \in Paths : p.dir = FINAL_PATH /\ last.pre[p].exists /\ Rating(last.pre[p].bytes) >= 4}

\* Those whose gallery image was identical already
Unchanged ==
    {p \in Qualifying : /\ last.pre[GalleryOf(p)].exists
                        /\ SameFingerprint(last.pre[GalleryOf(p)].bytes, last.pre[p].bytes)}

\* C15: after a sync_gallery that is not a dry run and in which no file
\* operation failed, the gallery images are the images of the final JPGs
\* rated 4 or more, each with the bytes and the fingerprint of its final
\* JPG; the images that were identical already are counted as unchanged
\* and nothing is written to them; the final library is as it was.
C15_GalleryMirrorsHighRated ==
    CleanSync =>
        /\ {p \in Paths : p.dir = GALLERY_IMAGES /\ fs[p].exists} =
              {GalleryOf(p) : p \in Qualifying}
        /\ \A p \in Qualifying :
              /\ fs[p] = last.pre[p]
              /\ fs[GalleryOf(p)].bytes = fs[p].bytes
              /\ SameFingerprint(fs[GalleryOf(p)].bytes, fs[p].bytes)
        /\ last.stats.unchanged = Cardinality(Unchanged)
        /\ \A p \in Unchanged :
              /\ WriteEvents(GalleryOf(p)) = {}
              /\ fs[GalleryOf(p)] = last.pre[GalleryOf(p)]
        /\ last.stats.removed =
              Cardinality({p \in Paths : /\ p.dir = GALLERY_IMAGES
                                         /\ last.pre[p].exists /\ ~fs[p].exists})

\* One image is replaced by the newer final JPG, another is left as
\* unchanged.
C15_Witness ==
    /\ CleanSync
    /\ Unchanged # {}
    /\ \E p \in Qualifying \ Unchanged :
          last.pre[GalleryOf(p)].exists /\ WriteEvents(GalleryOf(p)) # {}

--------------------------------------------------------------------------
\* The camera files that were there before the run and are gone after it
GoneFromCamera == {p \in CameraFiles(last.pre) : ~fs[p].exists}

\* C16: whatever happens in a finalize, a file that left the camera is a
\* camera RAF whose stem has a JPG in the final library once promotion is
\* over, and it was removed by an unlink; in a finalize that is not a dry
\* run and runs to its end with the camera connected, every such RAF is
\* removed unless its delete fails, no other camera file is removed, and
\* deleted_camera_raws is the number of RAFs removed.
C16_OnlyFinalizedCameraRawsDeleted ==
    last.op = "finalize" =>
        /\ \A p \in GoneFromCamera :
              /\ p \in FinalizedCameraRaws
              /\ Events({"unlink"}, p) # {}
        /\ (FullFinalize /\ CAMERA_PATH \in last.predirs) =>
              /\ GoneFromCamera = {p \in FinalizedCameraRaws : p \notin last.env.nounlink}
              /\ \A p \in CameraFiles(last.pre) :
                    (p.ext = "RAF" /\ p \notin FinalizedCameraRaws) => fs[p] = last.pre[p]
              /\ last.stats.deleted_camera_raws = Cardinality(GoneFromCamera)

\* The RAF of a photo promoted in this very run is deleted from the
\* camera.
C16_Witness ==
    /\ FullFinalize
    /\ \E p \in GoneFromCamera :
          /\ p.ext = "RAF"
          /\ p.stem \notin FinalStems
          /\ Events({"moved"}, P(STAGING_PATH, p.stem, "JPG")) # {}
    /\ last.stats.deleted_camera_raws = 1

--------------------------------------------------------------------------
\* C17: import_from_camera, finalize_staging, cleanup_unused_raws and
\* sync_gallery called with dry_run=True leave every file and every
\* directory as they were, write, delete and run nothing, and return
\* their counts.
C17_DryRunChangesNothing ==
    (last.op \in {"import", "finalize", "cleanup", "sync_gallery"} /\ last.dry) =>
        /\ fs = last.pre
        /\ dirs = last.predirs
        /\ \A i \in 1..Len(last.log) :
              last.log[i].ev \notin {"copy", "partial", "unlink", "json", "ran", "failed"}
        /\ ~last.killed
        /\ last.op = "sync_gallery" => ~last.stats.raised

\* A dry run of finalize that reports a photo as moved, the final
\* directory not being there.
C17_Witness ==
    /\ last.op = "finalize" /\ last.dry
    /\ FINAL_PATH \notin last.predirs
    /\ last.stats.moved >= 1
    /\ fs = last.pre /\ dirs = last.predirs

--------------------------------------------------------------------------
\* A backup that got as far as calling rsync
BackupAttempted ==
    /\ last.op = "backup"
    /\ FINAL_PATH \in last.predirs
    /\ ~last.env.norsync

\* C18: backup_final_to_homelab runs rsync over the direct transport first
\* and over the jump host only if the direct run failed, and nothing after
\* a run that succeeded; a success gives sync_successful = TRUE, the
\* connection_method of that run and errors = 0; errors is 1, with
\* sync_successful = FALSE, exactly when both runs failed.
C18_DirectThenJumpHost ==
    BackupAttempted =>
        /\ Len(last.log) \in {1, 2}
        /\ last.log[1].src = Shell("direct")
        /\ (last.log[1].ev = "failed") = ("direct" \in last.env.fail)
        /\ (Len(last.log) = 2) = (last.log[1].ev = "failed")
        /\ Len(last.log) = 2 =>
              /\ last.log[2].src = Shell("proxyjump")
              /\ (last.log[2].ev = "failed") = ("proxyjump" \in last.env.fail)
        /\ last.log[Len(last.log)].ev = "ran" =>
              /\ last.stats.sync_successful
              /\ last.stats.connection_method = last.log[Len(last.log)].src.ext
              /\ last.stats.errors = 0
        /\ last.log[Len(last.log)].ev = "failed" =>
              /\ ~last.stats.sync_successful
              /\ last.stats.connection_method = "None"
              /\ last.stats.errors = 1
        /\ fs = last.pre

\* The direct run fails and the run over the jump host succeeds.
C18_Witness ==
    /\ BackupAttempted
    /\ Len(last.log) = 2
    /\ last.log[1].ev = "failed" /\ last.log[2].ev = "ran"
    /\ last.stats.connection_method = "proxyjump"
    /\ last.stats.errors = 0

--------------------------------------------------------------------------
RawBackupOf(p) == P(RAWS_PATH, p.stem, "RAF")

\* The RAW backup holds the camera RAF's bytes
BackedUp(p) ==
    fs[RawBackupOf(p)].exists /\ fs[RawBackupOf(p)].bytes = last.pre[p].bytes

\* C19, as stated: after a run of import, finalize or cleanup that is not a
\* dry run, every RAF that was on the camera and whose stem has a JPG in
\* the final library is still on the camera or in the RAW backup.
C19_FinalizedRawKeptSomewhere ==
    (last.op \in {"import", "finalize", "cleanup"} /\ ~last.dry) =>
        \A p \in CameraFiles(last.pre) :
            (p.ext = "RAF" /\ p.stem \in {q.stem : q \in FinalNow}) =>
                fs[p].exists \/ BackedUp(p)

\* An import moves a photo's JPG to staging while the copy of its RAF to
\* the RAW backup fails, so that the RAF stays on the camera; the finalize
\* that follows promotes the JPG and deletes the RAF from the camera: no
\* sound copy of the RAW is left.
C19_Scenario ==
    /\ last.op = "finalize" /\ last.prev = "import" /\ ~last.dry
    /\ last.env = NoFaults
    /\ \E p \in GoneFromCamera :
          /\ p.ext = "RAF"
          /\ \E i \in 1..Len(last.prevlog) :
                last.prevlog[i] = Ev("error", p, RawBackupOf(p))
          /\ \E i \in 1..Len(last.prevlog) :
                last.prevlog[i] = Ev("unlink", P(CAMERA_FOLDER, p.stem, "JPG"),
                                     P(CAMERA_FOLDER, p.stem, "JPG"))
          /\ Events({"moved"}, P(STAGING_PATH, p.stem, "JPG")) # {}
          /\ p.stem \notin FinalStems
          /\ ~BackedUp(p)
    /\ last.stats.errors = 0

--------------------------------------------------------------------------
\* The RAW backups of the photos that are in staging when the orphan phase
\* runs
StagedRawBackups ==
    {p \in RawBackups(last.pre) : fs[P(STAGING_PATH, p.stem, "JPG")].exists}

\* C20, as stated: a finalize that runs to its end neither deletes nor
\* counts as orphaned the RAW backup of a photo that is still in staging:
\* orphaned_raws counts RAW backups without a final JPG and without a
\* staged photo only.
C20_StagedPhotoRawNotOrphaned ==
    FullFinalize =>
        /\ \A p \in StagedRawBackups : fs[p] = last.pre[p]
        /\ last.stats.orphaned_raws <=
              Cardinality({p \in RawBackups(last.pre) \ StagedRawBackups :
                              p.stem \notin {q.stem : q \in FinalNow}})

\* The one staged photo cannot be compressed and stays in staging; its RAW
\* backup, the only one there is, is counted as orphaned and handed to the
\* deletion, which leaves it in place.
C20_Scenario ==
    /\ FullFinalize
    /\ \E p \in StagedRawBackups :
          /\ RawBackups(last.pre) = {p}
          /\ Events({"compress_failed"}, P(STAGING_PATH, p.stem, "JPG")) # {}
          /\ Events({"skip"}, p) # {}
          /\ fs[p] = last.pre[p]
    /\ last.stats.orphaned_raws = 1
    /\ last.stats.deleted_raws = 0


--------------------------------------------------------------------------
\* C21, as stated: when the destination exists with content other than the
\* source's and the copy itself completes (afterwards the destination holds
\* the source's bytes) and no file fails to be read, safe_copy returns
\* success -- also when the old destination had the source's size and
\* modification time.
C21_OverwriteSucceeds ==
    [][(/\ last'.op = "safe_copy" /\ last'.copied
        /\ last'.err # "Error generating hash"
        /\ fs[last'.dst].exists /\ fs[last'.src].exists
        /\ fs[last'.dst].bytes # fs[last'.src].bytes
        /\ fs'[last'.dst].exists
        /\ fs'[last'.dst].bytes = fs'[last'.src].bytes)
          => (last'.ok /\ last'.err = "")]_vars

\* The first call of a process overwrites a destination of the source's
\* size and modification time correctly and reports 'Verification failed':
\* the fingerprint the pre-copy check cached for the destination is still
\* the one get_file_hash returns for it.
C21_Scenario ==
    /\ last.op = "safe_copy" /\ last.n = 1 /\ last.copied
    /\ fs[last.dst].exists /\ fs[last.dst].bytes = fs[last.src].bytes
    /\ fs[last.dst].mtime = fs[last.src].mtime
    /\ ~last.ok /\ last.err = "Verification failed"
    /\ Stale(cache, fs, last.dst)

--------------------------------------------------------------------------
\* The RAW backups in f that have no JPG of their stem in the final library
\* in f
OrphansIn(f, d) ==
    IF {RAWS_PATH, FINAL_PATH} \subseteq d
    THEN {p \in RawBackups(f) : ~f[P(FINAL_PATH, p.stem, "JPG")].exists}
    ELSE {}

\* The final JPG the user added or removed before this call
Edited == last.prevlog[1].src

\* C22: every call of cleanup_unused_raws counts the orphans of the final
\* library as it is when the call starts, so that after a JPG was added to
\* or removed from the final library the next call counts one orphan less
\* or more if that JPG's RAW is backed up; a finalize counts the orphans of
\* the final library as it is after promotion, so that the RAW backup of a
\* photo promoted in the same run is not counted.
C22_OrphansFromFreshScan ==
    /\ last.op = "cleanup" =>
          /\ last.stats.orphaned = Cardinality(OrphansIn(last.pre, last.predirs))
          /\ (last.prev = "edit" /\ last.pre[RawBackupOf(Edited)].exists
                                 /\ RAWS_PATH \in last.predirs) =>
                last.stats.orphaned =
                    last.earlier + (IF last.prevlog[1].ev = "added" THEN -1 ELSE 1)
    /\ (last.op = "finalize" /\ ~last.killed /\ STAGING_PATH \in last.predirs) =>
          /\ last.stats.orphaned_raws = Cardinality(OrphansIn(fs, dirs))
          /\ \A p \in OrphansIn(fs, dirs) :
                Events({"moved"}, P(STAGING_PATH, p.stem, "JPG")) = {}

\* The first call counted the RAW backup of a photo as an orphan; the user
\* put the photo's JPG into the final library, and the second call no
\* longer counts it.
C22_Witness ==
    /\ last.op = "cleanup" /\ last.prev = "edit"
    /\ last.prevlog[1].ev = "added"
    /\ last.pre[RawBackupOf(Edited)].exists
    /\ last.earlier >= 1
    /\ last.stats.orphaned = last.earlier - 1

\* A finalize that promoted a photo whose RAW is backed up and counted
\* another RAW backup as an orphan
C22_PromotedNotCounted ==
    /\ last.op = "finalize"
    /\ last.stats.orphaned_raws >= 1
    /\ \E p \in RawBackups(last.pre) :
          /\ Events({"moved"}, P(STAGING_PATH, p.stem, "JPG")) # {}
          /\ ~last.pre[P(FINAL_PATH, p.stem, "JPG")].exists

--------------------------------------------------------------------------
\* The files of the call for which the log holds a step of one of the kinds
FilesWith(kinds) ==
    {i \in 1..Len(last.files) : Events(kinds, last.files[i]) # {}}

\* The files that were copied and whose delete then failed
CopiedNotDeleted ==
    {i \in 1..Len(last.files) :
        /\ last.delete_original
        /\ last.files[i] \in last.env.nounlink
        /\ Events({"copied"}, last.files[i]) # {}}

\* C23, as stated: a _process_files that is not a dry run counts every one
\* of its n files in exactly one of processed, skipped and errors, so that
\* processed + skipped + errors = n.
C23_CountersSumToN ==
    last.op = "process_files" =>
        /\ last.stats.processed + last.stats.skipped + last.stats.errors = Len(last.files)
        /\ FilesWith({"copied"}) \cap FilesWith({"error"}) = {}

\* C23, amended: the call attempts every file whatever failed before;
\* processed, skipped and errors are the numbers of files copied, skipped as
\* duplicates and failed; a file is in two of them only when it was copied
\* and its delete failed, which counts it as processed and as an error; so
\* processed + skipped + errors = n + the number of such files.
C23_CountersSumToNPlusFailedDeletes ==
    last.op = "process_files" =>
        /\ FilesWith({"copied", "skip", "error"}) = 1..Len(last.files)
        /\ last.stats.processed = Cardinality(FilesWith({"copied"}))
        /\ last.stats.skipped = Cardinality(FilesWith({"skip"}))
        /\ last.stats.errors = Cardinality(FilesWith({"error"}))
        /\ FilesWith({"skip"}) \cap FilesWith({"copied", "error"}) = {}
        /\ FilesWith({"copied"}) \cap FilesWith({"error"}) = CopiedNotDeleted
        /\ last.stats.processed + last.stats.skipped + last.stats.errors =
              Len(last.files) + Cardinality(CopiedNotDeleted)

\* The first file is copied and cannot be deleted, the second is processed
\* all the same: two files, processed = 2 and errors = 1.
C23_Witness ==
    /\ last.op = "process_files"
    /\ Len(last.files) = 2
    /\ CopiedNotDeleted = {1}
    /\ Events({"copied"}, last.files[2]) # {}
    /\ last.stats = [processed |-> 2, skipped |-> 0, errors |-> 1]

--------------------------------------------------------------------------
\* What sync_gallery saw when it started
SyncWorld == World(last.pre, last.predirs, {}, last.env)

HighAtStart == HighRated(SyncWorld, ScanForImages(SyncWorld, FINAL_PATH, "JPG"))

ExistingAtStart ==
    IF GALLERY_IMAGES \in last.predirs
    THEN ScanForImages(SyncWorld, GALLERY_IMAGES, "JPG") ELSE <<>>

ToRemove == ImagesToRemove(HighAtStart, ExistingAtStart)
ToCopy == ImagesToCopy(HighAtStart, ExistingAtStart)
ToUpdate == ImagesToUpdate(HighAtStart, ExistingAtStart)

Range(seq) == {seq[i] : i \in 1..Len(seq)}

\* C24: of the lists sync_gallery works from, the images to copy and the
\* images to remove share no name, the images to copy and the images to
\* update share no image, together they are the final photos rated 4 or
\* more, each once, and every image the gallery held is to be updated or
\* to be removed; the run removes images of the removal list only and
\* writes gallery images of the two other lists only.
C24_ListsPartition ==
    (last.op = "sync_gallery" /\ FINAL_PATH \in last.predirs) =>
        /\ StemsOf(ToCopy) \cap StemsOf(ToRemove) = {}
        /\ Range(ToCopy) \cap Range(ToUpdate) = {}
        /\ Range(ToCopy) \cup Range(ToUpdate) =
              {p \in Paths : /\ p.dir = FINAL_PATH /\ last.pre[p].exists
                             /\ ExtractRating(SyncWorld, p) >= 4}
        /\ Len(ToCopy) + Len(ToUpdate) = Cardinality(Range(ToCopy) \cup Range(ToUpdate))
        /\ \A g \in Range(ExistingAtStart) :
              (g.stem \in StemsOf(ToUpdate)) # (g \in Range(ToRemove))
        /\ \A i \in 1..Len(last.log) :
              /\ last.log[i].ev = "unlink" => last.log[i].src \in Range(ToRemove)
              /\ (last.log[i].ev \in {"copy", "partial"} /\ last.log[i].dst.dir = GALLERY_IMAGES)
                    => last.log[i].src \in Range(ToCopy) \cup Range(ToUpdate)
        /\ last.stats.removed <= Len(ToRemove)

\* A sync with an image to remove and an image to copy, each of which it
\* acts on.
C24_Witness ==
    /\ last.op = "sync_gallery" /\ ~last.dry
    /\ ToRemove # <<>> /\ ToCopy # <<>>
    /\ last.stats.removed = Len(ToRemove)
    /\ \A p \in Range(ToCopy) : WriteEvents(GalleryOf(p)) # {}
    /\ \A g \in Range(ToRemove) : ~fs[g].exists

--------------------------------------------------------------------------
\* The entries of cache c filed under path p with the size and the
\* modification time file f has now
EntriesFor(c, p, f, partial) ==
    {e \in c : /\ e.key.path = p /\ e.key.partial = partial
               /\ e.key.size = Len(f.bytes) /\ e.key.mtime = f.mtime}

--------------------------------------------------------------------------
\* The first and the last MiB of a file's bytes
HeadOf(bytes) == SubSeq(bytes, 1, PartialBlock)
TailOf(bytes) == SubSeq(bytes, Len(bytes) - PartialBlock + 1, Len(bytes))

\* C26: of a file larger than 10 MiB the partial fingerprint is the digest
\* of its first and its last MiB and of nothing else, so that is_duplicate
\* reports two such files of the same size that agree in these two ranges
\* as duplicates, whatever lies between; of a file of at most 10 MiB the
\* partial fingerprint is the full fingerprint, the digest of all its
\* bytes.  The fingerprints are those computed from the files: a digest is
\* looked at when get_file_hash computes it, and a duplicate check when
\* the cache holds no digest of bytes that are gone.
C26_PartialFingerprintIsHeadAndTail ==
    [][/\ (/\ last'.op = "is_duplicate" /\ last'.err = "" /\ ~last'.stale
           /\ fs[last'.dst].exists
           /\ Len(fs[last'.src].bytes) > LargeThreshold
           /\ Len(fs[last'.dst].bytes) = Len(fs[last'.src].bytes)
           /\ HeadOf(fs[last'.dst].bytes) = HeadOf(fs[last'.src].bytes)
           /\ TailOf(fs[last'.dst].bytes) = TailOf(fs[last'.src].bytes))
             => last'.dup
       /\ (/\ last'.op = "get_file_hash" /\ last'.err = ""
           /\ EntriesFor(cache, last'.src, fs[last'.src], last'.partial) = {})
             => last'.hash =
                   IF last'.partial /\ Len(fs[last'.src].bytes) > LargeThreshold
                   THEN Md5(HeadOf(fs[last'.src].bytes) \o TailOf(fs[last'.src].bytes))
                   ELSE Md5(fs[last'.src].bytes)]_vars

\* Two videos of 12 MiB that differ in the middle only are reported as
\* duplicates.
C26_Witness ==
    /\ last.op = "is_duplicate" /\ last.err = "" /\ ~last.stale
    /\ fs[last.dst].exists
    /\ Len(fs[last.src].bytes) > LargeThreshold
    /\ Len(fs[last.dst].bytes) = Len(fs[last.src].bytes)
    /\ fs[last.dst].bytes # fs[last.src].bytes
    /\ last.dup

--------------------------------------------------------------------------
\* The messages the three functions return with a failure
ErrorMessages ==
    {"Error copying", "Verification failed", "Error generating hash",
     "Error comparing file sizes"}

\* The source of the call is missing, or it cannot be read and the process
\* holds no digest of it
SourceFails ==
    \/ ~fs[last.src].exists
    \/ last.src \in last.unread /\ last.n = 1

\* C27, as stated: get_file_hash and is_duplicate return an error value
\* whenever the source is missing or cannot be read.
C27_SourceFailureAlwaysReported ==
    (last.op \in {"get_file_hash", "is_duplicate"} /\ SourceFails) => last.err # ""

\* C27, amended: every call returns a value.  safe_copy returns (True, '')
\* or (False, message), the message never empty, and a failure whenever the
\* directory cannot be made, the source is missing or the copy raises or
\* arrives damaged; get_file_hash returns a digest or ('', message), the
\* message for a missing or unreadable source; is_duplicate returns an
\* error only with False, and for a source that is missing or unreadable
\* it returns the error if the destination exists (and, for the unreadable
\* one, has the source's size), and (False, '') otherwise.
C27_FailuresAreReturned ==
    /\ last.op = "safe_copy" =>
          /\ last.ok <=> last.err = ""
          /\ ~last.ok => last.err \in ErrorMessages
          /\ SourceFails => ~last.ok
    /\ last.op = "get_file_hash" =>
          /\ last.hash # <<>> <=> last.err = ""
          /\ last.err # "" => last.err = "Error generating hash"
          /\ SourceFails => last.err # ""
    /\ last.op = "is_duplicate" =>
          /\ last.err # "" => (~last.dup /\ last.err \in ErrorMessages)
          /\ SourceFails =>
                (last.err # "" <=>
                    /\ fs[last.dst].exists
                    /\ fs[last.src].exists =>
                          Len(fs[last.src].bytes) = Len(fs[last.dst].bytes))

\* The copy raises half-way and safe_copy returns the failure with its
\* message.
C27_Witness ==
    /\ last.op = "safe_copy" /\ last.copied
    /\ fs[last.dst].exists /\ fs[last.dst].bytes = Prefix(fs[last.src].bytes)
    /\ ~last.ok /\ last.err = "Error copying"

--------------------------------------------------------------------------
\* The final JPGs whose metadata could not be extracted in this run
Unextracted ==
    {p \in Paths : p.dir = FINAL_PATH /\ last.pre[p].exists /\ p \in last.env.unread}

\* C28: a sync_gallery in which the metadata of a final photo cannot be
\* extracted takes that photo for rated 0: the photo is not copied into the
\* gallery, is not listed in metadata.json, and an image the gallery held
\* of it is removed; the run goes on to its end, and every other final
\* photo rated 4 or more is in the gallery after it, every other one rated
\* less is not.
C28_UnextractedCountsAsUnrated ==
    (last.op = "sync_gallery" /\ FINAL_PATH \in last.predirs /\ Unextracted # {}) =>
        /\ last.stats.scanned =
              Cardinality({p \in Paths : p.dir = FINAL_PATH /\ last.pre[p].exists})
        /\ ~last.stats.raised
        /\ \A p \in Unextracted :
              /\ WriteEvents(GalleryOf(p)) = {}
              /\ p \notin Range(HighAtStart)
              /\ ~last.dry =>
                    /\ ~fs[GalleryOf(p)].exists
                    /\ \A i \in 1..Len(fs[MetadataJson].bytes) :
                          fs[MetadataJson].bytes[i] # p.stem
        /\ ~last.dry =>
              /\ last.stats.json_updated /\ last.stats.build_successful
              /\ \A q \in {p \in Paths : p.dir = FINAL_PATH /\ last.pre[p].exists} \ Unextracted :
                    IF Rating(last.pre[q].bytes) >= 4
                    THEN /\ fs[GalleryOf(q)].exists
                         /\ fs[GalleryOf(q)].bytes = last.pre[q].bytes
                    ELSE ~fs[GalleryOf(q)].exists

\* The metadata of a photo rated 5 cannot be extracted and its gallery
\* image is removed, while another photo rated 5 is copied into the
\* gallery.
C28_Witness ==
    /\ last.op = "sync_gallery" /\ ~last.dry
    /\ \E p \in Unextracted :
          /\ Rating(last.pre[p].bytes) = 5
          /\ last.pre[GalleryOf(p)].exists /\ ~fs[GalleryOf(p)].exists
    /\ \E q \in Qualifying \ Unextracted :
          /\ ~last.pre[GalleryOf(q)].exists
          /\ fs[GalleryOf(q)].exists

--------------------------------------------------------------------------
\* How often entry e is among the files scan_for_images returned
Times(e) == Cardinality({i \in 1..Len(last.files) : last.files[i] = e})

\* The entries the scan is to return: directly in the directory, with the
\* extension asked for in whatever casing, and no metadata file
Wanted ==
    {e \in fs : /\ ~e.nested
                /\ e.ext.word = last.extension.word
                /\ e.prefix \notin MetaPrefixes}

\* C29, as stated: scan_for_images returns, each exactly once, precisely
\* the files directly in the directory whose extension is the one asked
\* for, the case of the letters ignored, and whose name starts with none of
\* '._', '.DS_Store' and 'Thumbs.db'.
C29_ScanReturnsWantedOnce ==
    last.op = "scan_for_images" =>
        /\ \A e \in Wanted : Times(e) = 1
        /\ \A i \in 1..Len(last.files) : last.files[i] \in Wanted

\* On POSIX a photo whose extension is written Jpg is in the directory
\* and is not among the files returned for .JPG.
C29_Scenario ==
    /\ last.op = "scan_for_images" /\ last.posix
    /\ last.extension = [word |-> "jpg", casing |-> "upper"]
    /\ \E e \in Wanted : e.ext.casing = "mixed" /\ Times(e) = 0
    /\ \A e \in Wanted : e.ext.casing # "mixed" => Times(e) = 1
    /\ \A i \in 1..Len(last.files) : last.files[i] \in Wanted

--------------------------------------------------------------------------
\* The output of the call
OutputPath == IF last.in_place THEN CPath("input") ELSE CPath("output")

\* C30, as stated: compress_jpeg_safe leaves a sound input sound; when it
\* returns failure the input is as it was; when the output is another file
\* the input is as it was; and every file that was there, the output apart,
\* is as it was.
C30_InputNeverHarmed ==
    last.op = "compress_jpeg_safe" =>
        /\ (last.pre[CPath("input")].exists /\ Decodable(last.pre[CPath("input")].bytes)) =>
              (fs[CPath("input")].exists /\ Decodable(fs[CPath("input")].bytes))
        /\ ~last.ok => fs[CPath("input")].bytes = last.pre[CPath("input")].bytes
        /\ ~last.in_place => fs[CPath("input")] = last.pre[CPath("input")]
        /\ \A p \in CompressPaths \ {OutputPath} : last.pre[p].exists => fs[p] = last.pre[p]

\* A photo is compressed in place and the copy to the backup raises after
\* it wrote a part: the call returns failure, and the input now holds the
\* part that was written.
C30_Scenario ==
    /\ last.op = "compress_jpeg_safe" /\ last.in_place
    /\ last.fault = "backup_partial"
    /\ ~last.pre[BackupPath(CPath("input"))].exists
    /\ Decodable(last.pre[CPath("input")].bytes)
    /\ ~last.ok
    /\ fs[CPath("input")].bytes = Prefix(last.pre[CPath("input")].bytes)
    /\ ~Decodable(fs[CPath("input")].bytes)
====
